---------------------------- MODULE Spec2Model ----------------------------
(***************************************************************************)
(* Model of the statistical core (MathUtils) of the hypothesis-testing     *)
(* calculators: gamma, erf, the chi-square / Student's-t / normal          *)
(* densities, the Simpson-rule cumulative distributions and the bisection  *)
(* quantile solver, in the generalized copy (chi / t / normal facade) and  *)
(* in the two chi-square-only copies.                                      *)
(*                                                                         *)
(* JavaScript numbers are IEEE-754 doubles.  They are modelled as binary   *)
(* floating-point numbers <<m, e>> = m * 2^e with a 28-bit mantissa        *)
(* (2^27 <= |m| < 2^28, or m = 0), rounded to nearest on every operation:  *)
(* the same kind of arithmetic at a smaller precision (relative error      *)
(* about 4e-9 per operation instead of 1e-16), which fits the 32-bit       *)
(* integers of the model checker.  Infinity, -Infinity and NaN are kept    *)
(* as values of their own, with the comparisons of JavaScript (every       *)
(* comparison with NaN is false); -0 is not told from 0, and no finite     *)
(* result overflows.  Degrees of freedom are integers, as the calculators  *)
(* derive them (max(1, n - 1)), so every exponent handed to Math.pow is a  *)
(* multiple of 1/2.                                                        *)
(***************************************************************************)
EXTENDS Integers, Sequences, FiniteSets

(***************************************************************************)
(* State of the call harness.  The core is a library of pure functions;    *)
(* the state holds the arguments of the calls in progress, the values      *)
(* returned, and the locals of the bisection loop of ppf.                  *)
(***************************************************************************)
VARIABLES
  pc,        \* where the caller is
  copy,      \* which copy of MathUtils is called
  argType,   \* the family tag of the calls
  argDf,     \* the df of the calls
  fn,        \* the function called
  x1, ret1,  \* argument and record of a first call
  x2, ret2,  \* argument and record of a second call
  argP,      \* targetArea of the ppf call
  low, high, mid, iter,  \* the locals of ppf
  lastVal,   \* the local val of the last iteration of ppf
  ret,       \* what ppf returned
  nCdf, nPdf,  \* cdf calls and density calls made by the ppf call
  prev,      \* the number of ppf calls completed, the first and its results
  mode,      \* the calculator shown by the page
  nField,    \* the content of the sample size field
  chain,     \* the arguments of the calls of gamma a call made, in order
  page,      \* the React state of the page
  shown,     \* the state the page was last rendered with
  pending,   \* the effects of that render still to run, in order
  table      \* cdf at the arguments the page passes, computed once

(***************************************************************************)
(* Floating-point arithmetic                                               *)
(***************************************************************************)
Top == 2^28
Half == 2^14

\* Operator arguments are evaluated on demand; a loop tests Strict(val) to
\* have val evaluated before its next iteration (always TRUE).
Strict(val) == val = val

Abs(n) == IF n < 0 THEN -n ELSE n
Sgn(n) == IF n < 0 THEN -1 ELSE IF n > 0 THEN 1 ELSE 0

\* The k with 2^27 <= a * 2^k < 2^28, for 2^14 <= a < 2^28.
LeadShift(a) ==
  IF a < 2^21
  THEN IF a < 2^17
       THEN IF a < 2^15 THEN 13 ELSE IF a < 2^16 THEN 12 ELSE 11
       ELSE IF a < 2^19
            THEN IF a < 2^18 THEN 10 ELSE 9
            ELSE IF a < 2^20 THEN 8 ELSE 7
  ELSE IF a < 2^24
       THEN IF a < 2^22 THEN 6 ELSE IF a < 2^23 THEN 5 ELSE 4
       ELSE IF a < 2^26
            THEN IF a < 2^25 THEN 3 ELSE 2
            ELSE IF a < 2^27 THEN 1 ELSE 0

\* Normalise the magnitude a * 2^e (a >= 0), rounding to nearest.
RECURSIVE Norm(_, _)
Norm(a, e) ==
  IF a = 0 THEN <<0, 0>>
  ELSE IF a >= Top THEN Norm((a + 1) \div 2, e + 1)
  ELSE IF a < Half THEN Norm(a * Half, e - 14)
  ELSE <<a * 2^LeadShift(a), e - LeadShift(a)>>

\* The number of sign s and normalised magnitude n.
Signed(s, n) == <<s * n[1], n[2]>>

Mk(s, a, e) == Signed(s, Norm(a, e))

\* The number n * 2^e, n an integer.
MkInt(n, e) == Mk(Sgn(n), Abs(n), e)

FromInt(n) == MkInt(n, 0)

Zero == <<0, 0>>
One == <<2^27, -27>>
Two == <<2^27, -26>>
HalfF == <<2^27, -28>>

\* The values that are not finite carry the exponent InfExp, which no finite
\* value reaches: Infinity, -Infinity and NaN.
InfExp == 2^20
PInf == <<1, InfExp>>
NInf == <<-1, InfExp>>
NaN == <<0, InfExp>>

Special(a) == a[2] = InfExp
IsNaN(a) == a = NaN

fneg(a) == <<-a[1], a[2]>>
fabs(a) == <<Abs(a[1]), a[2]>>

\* a * 2^k
fscale(a, k) == IF a[1] = 0 \/ Special(a) THEN a ELSE <<a[1], a[2] + k>>

\* -1, 0, 1 as a < b, a = b, a > b (exact), sa and sb the signs of a and b
fcmpSigned(a, b, sa, sb) ==
  IF sa # sb THEN (IF sa < sb THEN -1 ELSE 1)
  ELSE IF sa = 0 THEN 0
  ELSE IF a[2] # b[2] THEN (IF a[2] < b[2] THEN -sa ELSE sa)
  ELSE IF a[1] < b[1] THEN -1
  ELSE IF a[1] > b[1] THEN 1
  ELSE 0

fcmp(a, b) == fcmpSigned(a, b, Sgn(a[1]), Sgn(b[1]))

\* a < b, a <= b: false when an operand is NaN
flt(a, b) == ~IsNaN(a) /\ ~IsNaN(b) /\ fcmp(a, b) < 0
fle(a, b) == ~IsNaN(a) /\ ~IsNaN(b) /\ fcmp(a, b) <= 0

\* a === b: false when an operand is NaN
feq(a, b) == ~IsNaN(a) /\ ~IsNaN(b) /\ a = b

\* Math.max(a, b), Math.min(a, b)
fmax(a, b) == IF IsNaN(a) \/ IsNaN(b) THEN NaN ELSE IF flt(a, b) THEN b ELSE a
fmin(a, b) == IF IsNaN(a) \/ IsNaN(b) THEN NaN ELSE IF flt(b, a) THEN b ELSE a

\* The mantissa m of the smaller operand, shifted d places down to the
\* scale of the larger one less two guard bits, rounded.
faddLow(m, d) ==
  IF d <= 2 THEN m * 2^(2 - d)
  ELSE Sgn(m) * ((Abs(m) + 2^(d - 3)) \div 2^(d - 2))

\* hi + lo for hi[2] - lo[2] = d >= 0
faddAligned(hi, lo, d) ==
  IF d > 30 THEN hi ELSE MkInt(hi[1] * 4 + faddLow(lo[1], d), hi[2] - 2)

\* a + b: the operands are aligned with two guard bits, the sum rounded.
\* a + b when a or b is not finite
faddSpecial(a, b) ==
  IF IsNaN(a) \/ IsNaN(b) THEN NaN
  ELSE IF Special(a) /\ Special(b) THEN (IF a = b THEN a ELSE NaN)
  ELSE IF Special(a) THEN a
  ELSE b

fadd(a, b) ==
  IF Special(a) \/ Special(b) THEN faddSpecial(a, b)
  ELSE IF a[1] = 0 THEN b
  ELSE IF b[1] = 0 THEN a
  ELSE IF a[2] >= b[2] THEN faddAligned(a, b, a[2] - b[2])
  ELSE faddAligned(b, a, b[2] - a[2])

fsub(a, b) == fadd(a, fneg(b))

\* The 56-bit product of two mantissas, from their 14-bit halves, divided by
\* 2^27 and rounded: a number of 28 or 29 bits.
fmulHigh(ah, al, bh, bl) ==
  2 * ah * bh
  + (ah * bl + al * bh + (al * bl) \div Half + Half \div 4) \div (Half \div 2)

\* sg * p * 2^(e + 27), p of 28 or 29 bits
fmulNorm(p, sg, e) ==
  IF p >= 2 * Top - 1 THEN <<sg * (Top \div 2), e + 29>>
  ELSE IF p >= Top THEN <<sg * ((p + 1) \div 2), e + 28>>
  ELSE <<sg * p, e + 27>>

\* a * b when a or b is not finite: Infinity * 0 is NaN
fmulSpecial(a, b) ==
  IF a[1] = 0 \/ b[1] = 0 THEN NaN
  ELSE <<Sgn(a[1]) * Sgn(b[1]), InfExp>>

fmul(a, b) ==
  IF Special(a) \/ Special(b) THEN fmulSpecial(a, b)
  ELSE IF a[1] = 0 \/ b[1] = 0 THEN <<0, 0>>
  ELSE fmulNorm(fmulHigh(Abs(a[1]) \div Half, Abs(a[1]) % Half,
                         Abs(b[1]) \div Half, Abs(b[1]) % Half),
                IF (a[1] < 0) = (b[1] < 0) THEN 1 ELSE -1,
                a[2] + b[2])

\* a / b for finite a and b # 0: the quotient q by the high half bh of the
\* divisor, then the first two terms of the correction for its low half bl.
fdivCorr2(sg, q, c1, bh, bl, e) ==
  Mk(sg, q - c1 + ((c1 * bl) \div bh) \div Half, e)

fdivCorr(sg, q, bh, bl, e) ==
  fdivCorr2(sg, q, ((q \div Half) * bl) \div bh, bh, bl, e)

fdivQuot(sg, am, bh, bl, e) ==
  fdivCorr(sg, (am \div bh) * Half + ((am % bh) * Half) \div bh, bh, bl, e)

\* a / b when a or b is not finite
fdivSpecial(a, b) ==
  IF IsNaN(a) \/ IsNaN(b) \/ (Special(a) /\ Special(b)) THEN NaN
  ELSE IF Special(a) THEN <<IF b[1] < 0 THEN -a[1] ELSE a[1], InfExp>>
  ELSE <<0, 0>>

\* a / b: a finite a over 0 is NaN when a is 0, else an Infinity
fdiv(a, b) ==
  IF Special(a) \/ Special(b) THEN fdivSpecial(a, b)
  ELSE IF b[1] = 0 THEN <<Sgn(a[1]), InfExp>>
  ELSE IF a[1] = 0 THEN <<0, 0>>
  ELSE fdivQuot(Sgn(a[1]) * Sgn(b[1]), Abs(a[1]),
                Abs(b[1]) \div Half, Abs(b[1]) % Half, a[2] - b[2] - 28)

\* The decimal literal n / d.
Dec(n, d) == fdiv(FromInt(n), FromInt(d))

\* Nearest integer to a (for |a| < 2^30).
fround(a) ==
  IF a[1] = 0 THEN 0
  ELSE IF a[2] >= 0 THEN a[1] * 2^a[2]
  ELSE IF a[2] < -30 THEN 0
  ELSE Sgn(a[1]) * ((Abs(a[1]) + 2^(-a[2] - 1)) \div 2^(-a[2]))

\* TRUE when a is an integer value.
fisint(a) == a[1] = 0 \/ a[2] >= 0 \/ (a[2] >= -27 /\ Abs(a[1]) % 2^(-a[2]) = 0)

RECURSIVE isqrtIter(_, _, _)
isqrtIter(n, x, k) ==
  IF k = 0 \/ ~Strict(x) THEN x ELSE isqrtIter(n, (x + n \div x) \div 2, k - 1)

\* One Newton step in floating point from the estimate y0 of sqrt(a).
fsqrtStep(a, y0) == fscale(fadd(y0, fdiv(a, y0)), -1)

\* sqrt(a) for a = m * 2^e, e even: integer Newton steps on the mantissa.
fsqrtEven(a, m, e) == fsqrtStep(a, Mk(1, isqrtIter(m * 4, 2^15, 4), (e \div 2) - 1))

\* Math.sqrt(a): NaN for a < 0
fsqrt(a) ==
  IF a[1] < 0 \/ IsNaN(a) THEN NaN
  ELSE IF Special(a) THEN a
  ELSE IF a[1] = 0 THEN <<0, 0>>
  ELSE IF (a[2] % 2) # 0 THEN fsqrtEven(a, a[1] * 2, a[2] - 1)
  ELSE fsqrtEven(a, a[1], a[2])

\* ln 2 = LN2HI + LN2LO, LN2HI of 14 bits; 1 / ln 2
LN2HI == <<11356 * Half, -28>>
LN2LO == <<140500807, -42>>
INVLN2 == <<193635251, -27>>

\* 1/k!, k = 0 .. 9
InvFact ==
  << <<134217728, -27>>, <<134217728, -27>>, <<134217728, -28>>,
     <<178956971, -30>>, <<178956971, -32>>, <<143165577, -34>>,
     <<190887435, -37>>, <<218157069, -40>>, <<218157069, -43>>,
     <<193917395, -46>> >>

RECURSIVE expPoly(_, _, _)
expPoly(y, k, acc) ==
  IF k = 0 \/ ~Strict(acc) THEN acc
  ELSE expPoly(y, k - 1, fadd(InvFact[k], fmul(y, acc)))

\* a - n ln 2, nf the number n
fexpReduce(a, nf) == fsub(fsub(a, fmul(nf, LN2HI)), fmul(nf, LN2LO))

\* e^a for a = n ln 2 + y with |y| <= (ln 2)/2: the Taylor polynomial of
\* degree 9 of e^y, scaled by 2^n.
fexpScaled(a, n) == fscale(expPoly(fexpReduce(a, FromInt(n)), 9, InvFact[10]), n)

\* Math.exp(a).  Below -745 the double result underflows to 0.
fexp(a) ==
  IF flt(a, FromInt(-745)) THEN <<0, 0>>
  ELSE IF Special(a) THEN a
  ELSE fexpScaled(a, fround(fmul(a, INVLN2)))

fsquare(a) == fmul(a, a)

\* b^n from h = b^(n \div 2)
ipowStep(b, n, h) ==
  IF n % 2 = 1 /\ Strict(h) THEN fmul(b, fsquare(h)) ELSE fsquare(h)

RECURSIVE ipow(_, _)
ipow(b, n) == IF n = 0 THEN One ELSE ipowStep(b, n, ipow(b, n \div 2))

\* b^(j/2) for j >= 0
fpowHalves(b, j) ==
  IF j % 2 = 0 THEN ipow(b, j \div 2) ELSE ipow(fsqrt(b), j)

\* b^(j/2)
fpowSigned(b, j) ==
  IF j < 0 THEN fdiv(One, fpowHalves(b, -j)) ELSE fpowHalves(b, j)

\* Math.pow(b, y) for y a multiple of 1/2
fpow(b, y) == fpowSigned(b, fround(fscale(y, 1)))

\* Math.PI = 3.141592653589793
PI == <<210828714, -26>>

RECURSIVE sinPoly(_, _, _)
sinPoly(r2, k, acc) ==
  IF k = 0 \/ ~Strict(acc) THEN acc
  ELSE sinPoly(r2, k - 1,
               fsub(One, fmul(fdiv(r2, FromInt((2 * k) * (2 * k + 1))), acc)))

\* sin(r) for |r| <= PI/2: the Taylor polynomial of degree 15.
fsinTaylor(r) == fmul(r, sinPoly(fmul(r, r), 7, One))

\* sin(PI * z) for n the nearest integer to z
fsinpiAt(z, n) ==
  IF n % 2 = 0 THEN fsinTaylor(fmul(PI, fsub(z, FromInt(n))))
  ELSE fneg(fsinTaylor(fmul(PI, fsub(z, FromInt(n)))))

\* Math.sin(Math.PI * z)
fsinpi(z) == fsinpiAt(z, fround(z))

(***************************************************************************)
(* MathUtils, generalized copy                                             *)
(*                                                                         *)
(* A density or cumulative evaluation is a record: v the value returned,   *)
(* n the number of density calls (chiPdf, tPdf, normPdf) it made, itself   *)
(* included, g the number of top-level gamma calls it made.                *)
(***************************************************************************)
\* const p = [676.5203681218851, -1259.1392167224028, 771.32342877765313,
\*            -176.61502916214059, 12.507343278686905, -0.13857109526572012,
\*            9.9843695780195716e-6, 1.5056327351493116e-7]
LanczosP ==
  << <<177345755, -18>>, <<-165037895, -17>>, <<202197809, -18>>,
     <<-185194281, -20>>, <<209838400, -24>>, <<-148789581, -30>>,
     <<175646887, -44>>, <<169519176, -50>> >>

\* let x = 0.99999999999980993, which is 1 at the precision of the model
LanczosC0 == <<2^27, -27>>

\* for (let i = 0; i < p.length; i++) x += p[i] / (z + i + 1), p 1-indexed
RECURSIVE lanczosSum(_, _, _)
lanczosSum(z, i, x) ==
  IF i < Len(LanczosP) /\ Strict(x)
  THEN lanczosSum(z, i + 1,
                  fadd(x, fdiv(LanczosP[i + 1],
                               fadd(fadd(z, FromInt(i)), One))))
  ELSE x

\* const t = z + p.length - 0.5
lanczosT(z) == fsub(fadd(z, FromInt(Len(LanczosP))), HalfF)

\* Math.sqrt(2 * Math.PI) * Math.pow(t, z + 0.5) * Math.exp(-t) * x
gammaLanczos(z, t) ==
  fmul(fmul(fmul(fsqrt(fmul(Two, PI)), fpow(t, fadd(z, HalfF))),
            fexp(fneg(t))),
       lanczosSum(z, 0, LanczosC0))

\* An argument of the recursive call half a unit above z.
ReflectedShift(z) == fadd(z, HalfF)

\* MathUtils.gamma(1 - z): the argument of the recursive call
Reflected(z) == fsub(One, z)

RECURSIVE gammaCalc(_)
gammaCalc(z) ==
  IF flt(z, HalfF)
  THEN fdiv(PI, fmul(fsinpi(z), gammaCalc(Reflected(z))))
  ELSE gammaLanczos(fsub(z, One), lanczosT(fsub(z, One)))

\* gamma is pure: its values at j/2, j = 1 .. 128, are computed once.
GammaMemo == [j \in 1..(2^7) |-> gammaCalc(fscale(FromInt(j), -1))]

\* gamma(z) for j the nearest integer to 2z
gammaAt(z, j) ==
  IF j >= 1 /\ j <= 2^7 /\ z = fscale(FromInt(j), -1)
  THEN GammaMemo[j]
  ELSE gammaCalc(z)

gamma(z) == gammaAt(z, fround(fscale(z, 1)))

\* The arguments of the calls of gamma that gamma(z) makes, itself first.
RECURSIVE gammaChain(_)
gammaChain(z) ==
  IF flt(z, HalfF) THEN <<z>> \o gammaChain(Reflected(z)) ELSE <<z>>

A1 == <<136810595, -29>>     \* 0.254829592
A2 == <<-152738022, -29>>    \* -0.284496736
A3 == <<190778923, -27>>     \* 1.421413741
A4 == <<-195038764, -27>>    \* -1.453152027
A5 == <<142459425, -27>>     \* 1.061405429
ErfP == <<175874133, -29>>   \* 0.3275911

\* var t = 1.0 / (1.0 + p*x)
erfT(x) == fdiv(One, fadd(One, fmul(ErfP, x)))

\* ((((a5*t + a4)*t) + a3)*t + a2)*t + a1
erfPoly(t) ==
  fadd(fmul(fadd(fmul(fadd(fmul(fadd(fmul(A5, t), A4), t), A3), t), A2), t),
       A1)

\* var y = 1.0 - (...)*t*Math.exp(-x*x), for x = Math.abs(x)
erfY(x, t) == fsub(One, fmul(fmul(erfPoly(t), t), fexp(fmul(fneg(x), x))))

\* erf without the sign of x restored.
erfUnsigned(x0) == erfY(fabs(x0), erfT(fabs(x0)))

erf(x0) ==
  IF fle(Zero, x0) THEN erfY(fabs(x0), erfT(fabs(x0)))
  ELSE fneg(erfY(fabs(x0), erfT(fabs(x0))))

\* Where a loop from i to bound by steps of 2 is split: after the first
\* half of its iterations.
SplitAt(i, bound) == i + 2 * (((bound - i + 1) \div 2) \div 2)

\* The record of an evaluation: its value v, the number n of density calls
\* and g of gamma calls it made, and the sequence s of <<node, weight>> of
\* the density calls that entered its sum.
Ev(val, dens, gam) == [v |-> val, n |-> dens, g |-> gam, s |-> << >>]

NoEv == Ev(Zero, 0, 0)

\* The record of one density call at x.
Sample(x, val, gam) ==
  [v |-> val, n |-> 1, g |-> gam, s |-> << <<x, 1>> >>]

\* sum += w * d, for the record d of one density call
Acc(acc, w, d) ==
  [v |-> fadd(acc.v, fmul(FromInt(w), d.v)), n |-> acc.n + d.n,
   g |-> acc.g + d.g, s |-> Append(acc.s, <<d.s[1][1], w>>)]

\* The loops list the weight w and the node x of each term of their sum in
\* the order they add them; the density is then taken at every node, and
\* Total adds the terms <<w, d>> in that order.
Add(nodes, w, x) == Append(nodes, <<w, x>>)

\* The terms j .. last added to acc in that order, the first half before
\* the second.
RECURSIVE TotalFrom(_, _, _, _)
RECURSIVE TotalRest(_, _, _, _)
TotalFrom(terms, j, last, acc) ==
  IF j > last THEN acc
  ELSE IF j = last THEN Acc(acc, terms[j][1], terms[j][2])
  ELSE TotalRest(terms, (j + last) \div 2 + 1, last,
                 TotalFrom(terms, j, (j + last) \div 2, acc))

TotalRest(terms, j, last, sum) ==
  IF Strict(sum) THEN TotalFrom(terms, j, last, sum) ELSE sum

\* The terms are evaluated first, each on its own.
Total(terms) ==
  IF Strict(terms) THEN TotalFrom(terms, 1, Len(terms), NoEv) ELSE NoEv

\* const numerator = Math.pow(x, (k / 2) - 1) * Math.exp(-x / 2), kh = k / 2
chiNumerator(x, kh) ==
  fmul(fpow(x, fsub(kh, One)), fexp(fdiv(fneg(x), Two)))

\* const denominator = Math.pow(2, k / 2) * MathUtils.gamma(k / 2)
chiDenominator(kh) == fmul(fpow(Two, kh), gamma(kh))

chiPdf(x, k) ==
  IF fle(x, Zero) \/ k <= 0 THEN Sample(x, Zero, 0)
  ELSE Sample(x, fdiv(chiNumerator(x, fdiv(FromInt(k), Two)),
                       chiDenominator(fdiv(FromInt(k), Two))), 1)

ChiN == 100

\* 0.0001
Epsilon == <<219902326, -41>>

\* for (let i = i0; i < bound; i += 2) sum += w * chiPdf(i * h, k), from i
\* on.  A loop of several iterations is run as its first iterations up to
\* SplitAt(i, bound), then the others from the sum those leave, which keeps
\* the evaluation shallow.
RECURSIVE chiLoop(_, _, _, _, _)
RECURSIVE chiLoopRest(_, _, _, _, _)
chiLoop(h, i, bound, w, acc) ==
  IF ~(i < bound) THEN acc
  ELSE IF ~(i + 2 < bound)
  THEN Add(acc, w, fmul(FromInt(i), h))
  ELSE chiLoopRest(h, SplitAt(i, bound), bound, w,
                 chiLoop(h, i, SplitAt(i, bound), w, acc))

chiLoopRest(h, i, bound, w, sum) ==
  IF Strict(sum) THEN chiLoop(h, i, bound, w, sum) ELSE sum

\* sum, from the nodes the loops visit
chiSum(k, nodes) ==
  Total([j \in 1..Len(nodes) |-> <<nodes[j][1], chiPdf(nodes[j][2], k)>>])

\* The loops of chiCdf with the second loop ended one node early.
chiSimpsonShort(h, sum0) ==
  chiLoopRest(h, 2, ChiN - 2, 2, chiLoop(h, 1, ChiN, 4, sum0))

\* The two loops of chiCdf, from sum0 = chiPdf(0.0001, k) + chiPdf(x, k)
chiSimpson(h, sum0) ==
  chiLoopRest(h, 2, ChiN - 1, 2, chiLoop(h, 1, ChiN, 4, sum0))

\* return (h / 3) * sum
chiResult(h, sum) == [sum EXCEPT !.v = fmul(fdiv(h, FromInt(3)), sum.v)]

\* chiCdf without its test of x.
chiCdfUnguarded(x, k) ==
  chiResult(fdiv(x, FromInt(ChiN)),
            chiSum(k, chiSimpson(fdiv(x, FromInt(ChiN)),
                          Add(Add(<< >>, 1, Epsilon), 1, x))))

chiCdf(x, k) ==
  IF fle(x, Zero) THEN Ev(Zero, 0, 0)
  ELSE chiResult(fdiv(x, FromInt(ChiN)),
                 chiSum(k, chiSimpson(fdiv(x, FromInt(ChiN)),
                          Add(Add(<< >>, 1, Epsilon), 1, x))))

\* A density with x in place of x * x in the exponent.
normPdfLinear(x) ==
  Sample(x, fmul(fdiv(One, fsqrt(fmul(Two, PI))),
                 fexp(fmul(fneg(HalfF), x))), 0)

normPdf(x) ==
  Sample(x, fmul(fdiv(One, fsqrt(fmul(Two, PI))),
                 fexp(fmul(fmul(fneg(HalfF), x), x))), 0)

normCdf(x) ==
  Ev(fmul(HalfF, fadd(One, erf(fdiv(x, fsqrt(Two))))), 0, 0)

\* num / den, vf the number v
tCoef(vf) ==
  fdiv(gamma(fdiv(fadd(vf, One), Two)),
       fmul(fsqrt(fmul(vf, PI)), gamma(fdiv(vf, Two))))

\* The density with the sign of x * x / v reversed.
tDensityMinus(x, vf) ==
  fmul(tCoef(vf),
       fpow(fsub(One, fdiv(fmul(x, x), vf)), fdiv(fneg(fadd(vf, One)), Two)))

\* (num / den) * Math.pow(base, pow)
tDensity(x, vf) ==
  fmul(tCoef(vf),
       fpow(fadd(One, fdiv(fmul(x, x), vf)), fdiv(fneg(fadd(vf, One)), Two)))

tPdf(x, v) == Sample(x, tDensity(x, FromInt(v)), 2)

TN == 200

\* for (let i = i0; i < bound; i += 2) sum += w * tPdf(i * h, v), from i
\* on.  A loop of several iterations is run as its first iterations up to
\* SplitAt(i, bound), then the others from the sum those leave, which keeps
\* the evaluation shallow.
RECURSIVE tLoop(_, _, _, _, _)
RECURSIVE tLoopRest(_, _, _, _, _)
tLoop(h, i, bound, w, acc) ==
  IF ~(i < bound) THEN acc
  ELSE IF ~(i + 2 < bound)
  THEN Add(acc, w, fmul(FromInt(i), h))
  ELSE tLoopRest(h, SplitAt(i, bound), bound, w,
               tLoop(h, i, SplitAt(i, bound), w, acc))

tLoopRest(h, i, bound, w, sum) ==
  IF Strict(sum) THEN tLoop(h, i, bound, w, sum) ELSE sum

\* sum, from the nodes the loops visit
tSum(v, nodes) ==
  Total([j \in 1..Len(nodes) |-> <<nodes[j][1], tPdf(nodes[j][2], v)>>])

\* The two loops of tCdf, from sum0 = tPdf(0, v) + tPdf(limit, v)
tSimpson(h, sum0) ==
  tLoopRest(h, 2, TN - 1, 2, tLoop(h, 1, TN, 4, sum0))

\* const integral = (h / 3) * sum
tIntegral(h, sum) == [sum EXCEPT !.v = fmul(fdiv(h, FromInt(3)), sum.v)]

\* The result with the branch of x > 0 taken for every x.
tResultPlus(x, integral) == [integral EXCEPT !.v = fadd(HalfF, integral.v)]

\* return x > 0 ? 0.5 + integral : 0.5 - integral
tResult(x, integral) ==
  [integral EXCEPT !.v = IF flt(Zero, x) THEN fadd(HalfF, integral.v)
                         ELSE fsub(HalfF, integral.v)]

\* The one-sided integral: (h / 3) * sum for h = Math.abs(x) / n
tOneSided(x, v) ==
  tIntegral(fdiv(fabs(x), FromInt(TN)),
            tSum(v, tSimpson(fdiv(fabs(x), FromInt(TN)),
                          Add(Add(<< >>, 1, Zero), 1, x))))

\* tCdf without its return of 0.5 at x = 0.
tCdfIntegratingAtZero(x, v) == tResult(x, tOneSided(x, v))

tCdf(x, v) ==
  IF x = Zero THEN Ev(HalfF, 0, 0)
  ELSE tResult(x, tOneSided(x, v))

pdf(x, df, type) ==
  IF type = "chi" THEN chiPdf(x, df)
  ELSE IF type = "t" THEN tPdf(x, df)
  ELSE normPdf(x)

\* A cdf that sends the tag "t" to the normal family.
cdfTAsNormal(x, df, type) ==
  IF type = "chi" THEN chiCdf(x, df) ELSE normCdf(x)

cdf(x, df, type) ==
  IF type = "chi" THEN chiCdf(x, df)
  ELSE IF type = "t" THEN tCdf(x, df)
  ELSE normCdf(x)

(***************************************************************************)
(* The quantile solver of the generalized copy                              *)
(***************************************************************************)
PpfN == 50

\* A lower sentinel that forgets the family.
ppfBelowZero(type) == Zero

\* if (targetArea <= 0) return type === 'chi' ? 0 : -10;
ppfBelow(type) == IF type = "chi" THEN Zero ELSE FromInt(-10)

\* An upper sentinel of the chi-square family beyond the bracket of small df.
ppfAboveDouble(type) == IF type = "chi" THEN FromInt(200) ELSE FromInt(10)

\* if (targetArea >= 1) return type === 'chi' ? 100 : 10;
ppfAbove(type) == IF type = "chi" THEN FromInt(100) ELSE FromInt(10)

\* A lower end of the bracket that is set by the first call only: a later
\* call starts from the one the call before it left.
ppfLowKept(type) ==
  IF prev.calls = 0 THEN (IF type = "chi" THEN Zero ELSE FromInt(-10))
  ELSE low

\* let low = type === 'chi' ? 0 : -10;
ppfLow(type) == IF type = "chi" THEN Zero ELSE FromInt(-10)

\* An upper end of the bracket that grows with df in every family.
ppfHighByDf(df, type) ==
  IF type = "chi" THEN fmax(FromInt(100), FromInt(df + 10))
  ELSE FromInt(df + 10)

\* let high = type === 'chi' ? Math.max(100, df + 10) : 10;
ppfHigh(df, type) ==
  IF type = "chi" THEN fmax(FromInt(100), FromInt(df + 10)) ELSE FromInt(10)

\* A test that sends a tie to the lower end.
BelowOrEqual(val, p) == fle(val, p)

\* A test that moves the lower end when val is above the target.
AboveTarget(val, p) == flt(p, val)

\* if (val < targetArea)
Below(val, p) == flt(val, p)

\* The body of the loop on st = <<low, high, mid>>:
\* mid = (low + high) / 2; if (val < targetArea) low = mid; else high = mid;
ppfMove(p, st, m, val) ==
  IF Below(val, p) THEN <<m, st[2], m>> ELSE <<st[1], m, m>>

ppfBody(p, df, type, st, m) == ppfMove(p, st, m, cdf(m, df, type).v)

\* n iterations of the loop from st: the first n \div 2, then the others
\* from the state those leave.
RECURSIVE ppfIter(_, _, _, _, _)
RECURSIVE ppfIterRest(_, _, _, _, _)
ppfIter(p, df, type, st, n) ==
  IF n = 0 THEN st
  ELSE IF n = 1 THEN ppfBody(p, df, type, st, fdiv(fadd(st[1], st[2]), Two))
  ELSE ppfIterRest(p, df, type, ppfIter(p, df, type, st, n \div 2),
                   n - n \div 2)

ppfIterRest(p, df, type, st, n) ==
  IF Strict(st) THEN ppfIter(p, df, type, st, n) ELSE st

\* MathUtils.ppf as a function of its arguments: return mid
ppf(p, df, type) ==
  IF fle(p, Zero) THEN ppfBelow(type)
  ELSE IF fle(One, p) THEN ppfAbove(type)
  ELSE ppfIter(p, df, type, <<ppfLow(type), ppfHigh(df, type), Zero>>,
               PpfN)[3]

(***************************************************************************)
(* MathUtils, chi-square-only copy of App.jsx                               *)
(***************************************************************************)
\* The same text as gamma of the generalized copy.
AppGamma(z) == gamma(z)

\* A numerator with the exponent k / 2 instead of k / 2 - 1.
AppNumeratorWhole(x, kh) == fmul(fpow(x, kh), fexp(fdiv(fneg(x), Two)))

AppNumerator(x, kh) ==
  fmul(fpow(x, fsub(kh, One)), fexp(fdiv(fneg(x), Two)))

AppDenominator(kh) == fmul(fpow(Two, kh), AppGamma(kh))

AppPdf(x, k) ==
  IF fle(x, Zero) \/ k <= 0 THEN Sample(x, Zero, 0)
  ELSE Sample(x, fdiv(AppNumerator(x, fdiv(FromInt(k), Two)),
                       AppDenominator(fdiv(FromInt(k), Two))), 1)

AppN == 100

\* for (let i = i0; i < bound; i += 2) sum += w * AppPdf(i * h, k), from i
\* on.  A loop of several iterations is run as its first iterations up to
\* SplitAt(i, bound), then the others from the sum those leave, which keeps
\* the evaluation shallow.
RECURSIVE AppLoop(_, _, _, _, _)
RECURSIVE AppLoopRest(_, _, _, _, _)
AppLoop(h, i, bound, w, acc) ==
  IF ~(i < bound) THEN acc
  ELSE IF ~(i + 2 < bound)
  THEN Add(acc, w, fmul(FromInt(i), h))
  ELSE AppLoopRest(h, SplitAt(i, bound), bound, w,
                 AppLoop(h, i, SplitAt(i, bound), w, acc))

\* sum, from the nodes the loops visit
AppSum(k, nodes) ==
  Total([j \in 1..Len(nodes) |-> <<nodes[j][1], AppPdf(nodes[j][2], k)>>])

AppLoopRest(h, i, bound, w, sum) ==
  IF Strict(sum) THEN AppLoop(h, i, bound, w, sum) ELSE sum

AppSimpson(h, sum0) ==
  AppLoopRest(h, 2, AppN - 1, 2, AppLoop(h, 1, AppN, 4, sum0))

\* return (h / 3) * sum
AppResult(h, sum) == [sum EXCEPT !.v = fmul(fdiv(h, FromInt(3)), sum.v)]

AppCdf(x, k) ==
  IF fle(x, Zero) THEN Ev(Zero, 0, 0)
  ELSE AppResult(fdiv(x, FromInt(AppN)),
                 AppSum(k, AppSimpson(fdiv(x, FromInt(AppN)),
                          Add(Add(<< >>, 1, Epsilon), 1, x))))

\* The bracket of the generalized copy in the chi-square copy.
AppHighPlusTen(k) == fmax(FromInt(100), fadd(FromInt(k), FromInt(10)))

\* const stdDev = Math.sqrt(2 * k);
AppStdDev(k) == fsqrt(FromInt(2 * k))

\* let high = Math.max(100, k + 6 * stdDev);
AppHigh(k) ==
  fmax(FromInt(100), fadd(FromInt(k), fmul(FromInt(6), AppStdDev(k))))

(***************************************************************************)
(* MathUtils, chi-square-only copy of part_000                              *)
(***************************************************************************)
\* The same text as gamma of the generalized copy.
P0Gamma(z) == gamma(z)

P0Numerator(x, kh) ==
  fmul(fpow(x, fsub(kh, One)), fexp(fdiv(fneg(x), Two)))

P0Denominator(kh) == fmul(fpow(Two, kh), P0Gamma(kh))

P0Pdf(x, k) ==
  IF fle(x, Zero) \/ k <= 0 THEN Sample(x, Zero, 0)
  ELSE Sample(x, fdiv(P0Numerator(x, fdiv(FromInt(k), Two)),
                       P0Denominator(fdiv(FromInt(k), Two))), 1)

P0N == 100

\* for (let i = i0; i < bound; i += 2) sum += w * P0Pdf(i * h, k), from i
\* on.  A loop of several iterations is run as its first iterations up to
\* SplitAt(i, bound), then the others from the sum those leave, which keeps
\* the evaluation shallow.
RECURSIVE P0Loop(_, _, _, _, _)
RECURSIVE P0LoopRest(_, _, _, _, _)
P0Loop(h, i, bound, w, acc) ==
  IF ~(i < bound) THEN acc
  ELSE IF ~(i + 2 < bound)
  THEN Add(acc, w, fmul(FromInt(i), h))
  ELSE P0LoopRest(h, SplitAt(i, bound), bound, w,
                P0Loop(h, i, SplitAt(i, bound), w, acc))

\* sum, from the nodes the loops visit
P0Sum(k, nodes) ==
  Total([j \in 1..Len(nodes) |-> <<nodes[j][1], P0Pdf(nodes[j][2], k)>>])

P0LoopRest(h, i, bound, w, sum) ==
  IF Strict(sum) THEN P0Loop(h, i, bound, w, sum) ELSE sum

P0Simpson(h, sum0) ==
  P0LoopRest(h, 2, P0N - 1, 2, P0Loop(h, 1, P0N, 4, sum0))

\* return (h / 3) * sum
P0Result(h, sum) == [sum EXCEPT !.v = fmul(fdiv(h, FromInt(3)), sum.v)]

P0Cdf(x, k) ==
  IF fle(x, Zero) THEN Ev(Zero, 0, 0)
  ELSE P0Result(fdiv(x, FromInt(P0N)),
                 P0Sum(k, P0Simpson(fdiv(x, FromInt(P0N)),
                          Add(Add(<< >>, 1, Epsilon), 1, x))))

\* const stdDev = Math.sqrt(2 * k);
P0StdDev(k) == fsqrt(FromInt(2 * k))

\* let high = Math.max(100, k + 6 * stdDev);
P0High(k) ==
  fmax(FromInt(100), fadd(FromInt(k), fmul(FromInt(6), P0StdDev(k))))

(***************************************************************************)
(* Callers                                                                  *)
(***************************************************************************)
\* The state of the pages and of the calls of gamma.
pageVars == <<chain, page, shown, pending, table>>

vars == <<pc, copy, argType, argDf, fn, x1, ret1, x2, ret2, argP, low, high,
          mid, iter, lastVal, ret, nCdf, nPdf, prev, mode, nField, pageVars>>

\* No page is open and gamma is not called.
NoPages ==
  chain = << >> /\ page = << >> /\ shown = << >> /\ pending = << >>
  /\ table = << >>

\* MathUtils.pdf / MathUtils.cdf / MathUtils.erf of copy c.
Apply(c, f, x, df, type) ==
  IF c = "generic"
  THEN (IF f = "pdf" THEN pdf(x, df, type)
        ELSE IF f = "cdf" THEN cdf(x, df, type)
        ELSE Ev(erf(x), 0, 0))
  ELSE IF c = "app"
  THEN (IF f = "pdf" THEN AppPdf(x, df) ELSE AppCdf(x, df))
  ELSE (IF f = "pdf" THEN P0Pdf(x, df) ELSE P0Cdf(x, df))

\* The copies, families and degrees of freedom of the pdf / cdf calls.
EvalConfigs ==
  { <<"generic", "chi", 0>>, <<"generic", "chi", 1>>, <<"generic", "chi", 5>>,
    <<"generic", "t", 0>>, <<"generic", "t", 1>>, <<"generic", "t", 5>>,
    <<"generic", "normal", 1>>, <<"generic", "normal", 5>>,
    <<"app", "chi", 0>>, <<"app", "chi", 1>>,
    <<"part0", "chi", 0>>, <<"part0", "chi", 1>> }

\* The arguments x of the calls.
EvalX == { FromInt(-2), Zero, One, Two, FromInt(100), FromInt(400) }
AppX  == { FromInt(-2), Zero, One }
XOf(c) == IF c = "generic" THEN EvalX ELSE AppX

\* The functions called: erf is the one the normal family is built on.
FnOf(c, type) ==
  IF c = "generic" /\ type = "normal" THEN {"pdf", "cdf", "erf"}
  ELSE {"pdf", "cdf"}

\* No ppf call is completed yet.
NoPrev ==
  [calls |-> 0, first |-> <<"none", 0, Zero>>, ret |-> Zero, pdf |-> NoEv,
   cdf |-> NoEv]

Init ==
  /\ pc = "idle"
  /\ \E cfg \in EvalConfigs :
       copy = cfg[1] /\ argType = cfg[2] /\ argDf = cfg[3]
  /\ fn = "none" /\ x1 = Zero /\ ret1 = NoEv /\ x2 = Zero /\ ret2 = NoEv
  /\ argP = Zero /\ low = Zero /\ high = Zero /\ mid = Zero /\ iter = 0
  /\ lastVal = Zero /\ ret = Zero /\ nCdf = 0 /\ nPdf = 0
  /\ prev = NoPrev /\ mode = "none" /\ nField = << >>
  /\ NoPages

\* A first call.
Call1 ==
  /\ pc = "idle"
  /\ \E f \in FnOf(copy, argType), x \in XOf(copy) :
       /\ fn' = f
       /\ x1' = x
       /\ ret1' = Apply(copy, f, x, argDf, argType)
  /\ pc' = "one"
  /\ UNCHANGED <<copy, argType, argDf, x2, ret2, argP, low, high, mid, iter,
                 lastVal, ret, nCdf, nPdf, prev, mode, nField,
                 pageVars>>

\* A second call of the same function, same df and family.
Call2 ==
  /\ pc = "one"
  /\ \E x \in XOf(copy) :
       /\ x2' = x
       /\ ret2' = Apply(copy, fn, x, argDf, argType)
  /\ pc' = "two"
  /\ UNCHANGED <<copy, argType, argDf, fn, x1, ret1, argP, low, high, mid,
                 iter, lastVal, ret, nCdf, nPdf, prev, mode, nField,
                 pageVars>>

Next == Call1 \/ Call2

Spec == Init /\ [][Next]_vars

(***************************************************************************)
(* ppf, one action per step of each copy                                    *)
(***************************************************************************)
\* targetArea outside (0, 1), and the df of those calls.
OutsideP == { Dec(-1, 2), Zero, One, Dec(3, 2) }
OutsideDf == { 1, 50, 100 }

\* The round-trip probabilities.
RoundTripP == { Dec(1, 100), Dec(1, 4), Dec(1, 2), Dec(3, 4), Dec(99, 100) }

\* <<copy, family, df, targetArea>> of the ppf calls.
PpfInputs ==
  ({"generic"} \X {"chi", "t", "normal"} \X OutsideDf \X OutsideP)
  \cup ({"app", "part0"} \X {"chi"} \X OutsideDf \X OutsideP)
  \cup ({"generic"} \X {"normal"} \X {1, 5} \X RoundTripP)
  \cup { <<"generic", "chi", 5, Dec(1, 4)>>,
         <<"generic", "chi", 100, Dec(1, 2)>>,
         <<"generic", "t", 1, Dec(1, 100)>>,
         <<"generic", "t", 5, Dec(1, 2)>>,
         <<"app", "chi", 100, Dec(1, 2)>>,
         <<"part0", "chi", 100, Dec(1, 2)>> }

\* The state of a caller about to call ppf(argP, argDf, argType).
PpfCall ==
  /\ pc = "call" /\ fn = "ppf"
  /\ x1 = Zero /\ ret1 = NoEv /\ x2 = Zero /\ ret2 = NoEv
  /\ low = Zero /\ high = Zero /\ mid = Zero /\ iter = 0
  /\ lastVal = Zero /\ ret = Zero /\ nCdf = 0 /\ nPdf = 0
  /\ prev = NoPrev /\ mode = "none" /\ nField = << >>
  /\ NoPages

InitPpf ==
  /\ \E inp \in PpfInputs :
       copy = inp[1] /\ argType = inp[2] /\ argDf = inp[3] /\ argP = inp[4]
  /\ PpfCall

Interior == ~fle(argP, Zero) /\ ~fle(One, argP)

\* A point a third of the way from low to high.
MidpointThird == fadd(low, fdiv(fsub(high, low), FromInt(3)))

\* mid = (low + high) / 2
Midpoint == fdiv(fadd(low, high), Two)

\* The body of the loop after const val = cdf(mid): val is the evaluation
\* record of that call.
Bisect(val) ==
  /\ mid' = Midpoint
  /\ lastVal' = val.v
  /\ IF Below(val.v, argP)
     THEN low' = Midpoint /\ high' = high
     ELSE high' = Midpoint /\ low' = low
  /\ iter' = iter + 1
  /\ nCdf' = nCdf + 1
  /\ nPdf' = nPdf + val.n
  /\ UNCHANGED <<pc, copy, argType, argDf, fn, x1, ret1, x2, ret2, argP, ret,
                 prev, mode, nField,
                 pageVars>>

Return ==
  /\ ret' = mid
  /\ pc' = "done"
  /\ UNCHANGED <<copy, argType, argDf, fn, x1, ret1, x2, ret2, argP, low, high,
                 mid, iter, lastVal, nCdf, nPdf, prev, mode, nField,
                 pageVars>>

ppfEarly ==
  /\ pc = "call" /\ copy = "generic"
  /\ \/ fle(argP, Zero) /\ ret' = ppfBelow(argType)
     \/ ~fle(argP, Zero) /\ fle(One, argP) /\ ret' = ppfAbove(argType)
  /\ pc' = "done"
  /\ UNCHANGED <<copy, argType, argDf, fn, x1, ret1, x2, ret2, argP, low, high,
                 mid, iter, lastVal, nCdf, nPdf, prev, mode, nField,
                 pageVars>>

ppfInit ==
  /\ pc = "call" /\ copy = "generic" /\ Interior
  /\ low' = ppfLow(argType)
  /\ high' = ppfHigh(argDf, argType)
  /\ mid' = Zero
  /\ iter' = 0
  /\ pc' = "loop"
  /\ UNCHANGED <<copy, argType, argDf, fn, x1, ret1, x2, ret2, argP, lastVal,
                 ret, nCdf, nPdf, prev, mode, nField,
                 pageVars>>

ppfStep ==
  /\ pc = "loop" /\ copy = "generic" /\ iter < PpfN
  /\ Bisect(cdf(Midpoint, argDf, argType))

ppfReturn == pc = "loop" /\ copy = "generic" /\ ~(iter < PpfN) /\ Return

AppPpfN == 50

AppPpfEarly ==
  /\ pc = "call" /\ copy = "app"
  /\ \/ fle(argP, Zero) /\ ret' = Zero
     \/ ~fle(argP, Zero) /\ fle(One, argP) /\ ret' = AppHigh(argDf)
  /\ pc' = "done"
  /\ UNCHANGED <<copy, argType, argDf, fn, x1, ret1, x2, ret2, argP, low, high,
                 mid, iter, lastVal, nCdf, nPdf, prev, mode, nField,
                 pageVars>>

AppPpfInit ==
  /\ pc = "call" /\ copy = "app" /\ Interior
  /\ high' = AppHigh(argDf)
  /\ low' = Zero
  /\ mid' = Zero
  /\ iter' = 0
  /\ pc' = "loop"
  /\ UNCHANGED <<copy, argType, argDf, fn, x1, ret1, x2, ret2, argP, lastVal,
                 ret, nCdf, nPdf, prev, mode, nField,
                 pageVars>>

AppPpfStep ==
  /\ pc = "loop" /\ copy = "app" /\ iter < AppPpfN
  /\ Bisect(AppCdf(Midpoint, argDf))

AppPpfReturn == pc = "loop" /\ copy = "app" /\ ~(iter < AppPpfN) /\ Return

P0PpfN == 50

P0PpfEarly ==
  /\ pc = "call" /\ copy = "part0"
  /\ \/ fle(argP, Zero) /\ ret' = Zero
     \/ ~fle(argP, Zero) /\ fle(One, argP) /\ ret' = P0High(argDf)
  /\ pc' = "done"
  /\ UNCHANGED <<copy, argType, argDf, fn, x1, ret1, x2, ret2, argP, low, high,
                 mid, iter, lastVal, nCdf, nPdf, prev, mode, nField,
                 pageVars>>

P0PpfInit ==
  /\ pc = "call" /\ copy = "part0" /\ Interior
  /\ high' = P0High(argDf)
  /\ low' = Zero
  /\ mid' = Zero
  /\ iter' = 0
  /\ pc' = "loop"
  /\ UNCHANGED <<copy, argType, argDf, fn, x1, ret1, x2, ret2, argP, lastVal,
                 ret, nCdf, nPdf, prev, mode, nField,
                 pageVars>>

P0PpfStep ==
  /\ pc = "loop" /\ copy = "part0" /\ iter < P0PpfN
  /\ Bisect(P0Cdf(Midpoint, argDf))

P0PpfReturn == pc = "loop" /\ copy = "part0" /\ ~(iter < P0PpfN) /\ Return

\* The caller evaluates the density and the cumulative distribution at the
\* quantile returned (the curve is drawn up to it, and a critical value
\* is turned back into an area).
Probe ==
  /\ pc = "done"
  /\ ret1' = Apply(copy, "pdf", ret, argDf, argType)
  /\ ret2' = Apply(copy, "cdf", ret, argDf, argType)
  /\ pc' = "checked"
  /\ UNCHANGED <<copy, argType, argDf, fn, x1, x2, argP, low, high, mid, iter,
                 lastVal, ret, nCdf, nPdf, prev, mode, nField,
                 pageVars>>

NextPpf ==
  \/ ppfEarly \/ ppfInit \/ ppfStep \/ ppfReturn
  \/ AppPpfEarly \/ AppPpfInit \/ AppPpfStep \/ AppPpfReturn
  \/ P0PpfEarly \/ P0PpfInit \/ P0PpfStep \/ P0PpfReturn
  \/ Probe

SpecPpf == InitPpf /\ [][NextPpf]_vars

\* The bracket the loop of the current call starts from.
Low0 == IF copy = "generic" THEN ppfLow(argType) ELSE Zero

High0 ==
  IF copy = "generic" THEN ppfHigh(argDf, argType)
  ELSE IF copy = "app" THEN AppHigh(argDf)
  ELSE P0High(argDf)

\* Four rounding units of the arithmetic at the magnitude of the bracket.
Slack == fscale(fmax(fabs(Low0), fabs(High0)), -26)

(***************************************************************************)
(* Three ppf calls in a row of the generalized copy: a first call, any     *)
(* other call, and the first call again.  A call starts in the state the   *)
(* call before it left.                                                     *)
(***************************************************************************)
\* <<family, df, targetArea>> of the first call and of the call between.
AgainInputs ==
  { <<"normal", 1, Dec(1, 4)>>, <<"normal", 5, Dec(3, 4)>>,
    <<"chi", 5, Dec(1, 4)>>, <<"chi", 1, Zero>>, <<"t", 1, Dec(3, 2)>> }

BetweenInputs ==
  { <<"normal", 1, Dec(99, 100)>>, <<"t", 1, Zero>>, <<"chi", 50, One>> }

InitAgain ==
  /\ copy = "generic"
  /\ \E inp \in AgainInputs :
       argType = inp[1] /\ argDf = inp[2] /\ argP = inp[3]
  /\ PpfCall

\* The caller keeps the results of the first call and calls ppf again: with
\* other arguments after the first call, with those of the first call after
\* the second.
Again ==
  /\ pc = "checked" /\ prev.calls < 2
  /\ \/ /\ prev.calls = 0
        /\ prev' = [calls |-> 1, first |-> <<argType, argDf, argP>>,
                    ret |-> ret, pdf |-> ret1, cdf |-> ret2]
        /\ \E inp \in BetweenInputs :
             argType' = inp[1] /\ argDf' = inp[2] /\ argP' = inp[3]
     \/ /\ prev.calls = 1
        /\ prev' = [prev EXCEPT !.calls = 2]
        /\ argType' = prev.first[1]
        /\ argDf' = prev.first[2]
        /\ argP' = prev.first[3]
  /\ nCdf' = 0 /\ nPdf' = 0
  /\ pc' = "call"
  /\ UNCHANGED <<copy, fn, x1, ret1, x2, ret2, low, high, mid, iter, lastVal,
                 ret, mode, nField,
                 pageVars>>

NextAgain == ppfEarly \/ ppfInit \/ ppfStep \/ ppfReturn \/ Probe \/ Again

SpecAgain == InitAgain /\ [][NextAgain]_vars

(***************************************************************************)
(* gamma, called on its own                                                *)
(***************************************************************************)
\* The largest number below 0.5 and the smallest above it.
BelowHalf == <<Top - 1, -29>>
AboveHalf == <<Top \div 2 + 1, -28>>

\* The arguments of gamma: the multiples of 1/2 from -20 to 40 (those of
\* the densities are among them), the neighbours of 0.5, numbers close to
\* 0 and far from it, and the values that are not numbers.
GammaArgs ==
  { fscale(FromInt(j), -1) : j \in -40..80 }
  \cup { BelowHalf, AboveHalf, <<Top \div 2, -100>>, <<-(Top \div 2), -100>>,
         <<Top \div 2, 40>>, <<-(Top \div 2), 40>>, PInf, NInf, NaN }

InitGamma ==
  /\ pc = "call" /\ fn = "gamma"
  /\ copy \in {"generic", "app", "part0"}
  /\ x1 \in GammaArgs
  /\ argType = "none" /\ argDf = 0
  /\ ret1 = NoEv /\ x2 = Zero /\ ret2 = NoEv
  /\ argP = Zero /\ low = Zero /\ high = Zero /\ mid = Zero /\ iter = 0
  /\ lastVal = Zero /\ ret = Zero /\ nCdf = 0 /\ nPdf = 0
  /\ prev = NoPrev /\ mode = "none" /\ nField = << >>
  /\ NoPages

\* MathUtils.gamma(x1), to its return.
GammaCall ==
  /\ pc = "call" /\ fn = "gamma"
  /\ chain' = gammaChain(x1)
  /\ pc' = "done"
  /\ UNCHANGED <<copy, argType, argDf, fn, x1, ret1, x2, ret2, argP, low,
                 high, mid, iter, lastVal, ret, nCdf, nPdf, prev, mode,
                 nField, page, shown, pending, table>>

NextGamma == GammaCall

SpecGamma == InitGamma /\ [][NextGamma]_vars

(***************************************************************************)
(* The sample size field and the degrees of freedom of the three pages     *)
(*                                                                         *)
(* The state n is the number it is initialised or reset to, or the text of *)
(* the input field after a change; both are read as text, a sequence of    *)
(* characters.  Numbers read from the text are kept as integers: parseInt  *)
(* as is, parseFloat scaled by Scale.                                      *)
(***************************************************************************)
MaxLen == 3

\* The characters typed: digits, a sign, a point and a letter.
Alphabet == { "0", "1", "3", "-", ".", "a" }

\* The texts of at most MaxLen characters.
FieldContents == UNION { [1..k -> Alphabet] : k \in 0..MaxLen }

IsDigit(c) == c \in { "0", "1", "3" }
DigitVal(c) == IF c = "0" THEN 0 ELSE IF c = "1" THEN 1 ELSE 3

Scale == 10^MaxLen

\* Where the digits start: after a leading sign.
SignEnd(s) == IF Len(s) >= 1 /\ s[1] = "-" THEN 2 ELSE 1

\* <<k, j>>: the digits of s from i on spell k after acc, and end before j.
RECURSIVE IntPart(_, _, _)
IntPart(s, i, acc) ==
  IF i <= Len(s) /\ IsDigit(s[i])
  THEN IntPart(s, i + 1, 10 * acc + DigitVal(s[i]))
  ELSE <<acc, i>>

\* parseInt(s) from the digits ip read after the sign: NaN when there is
\* no digit.
parseIntAt(start, ip) ==
  [nan |-> ip[2] = start, val |-> IF start = 2 THEN -ip[1] ELSE ip[1]]

parseInt(s) == parseIntAt(SignEnd(s), IntPart(s, SignEnd(s), 0))

\* <<f, j>>: the digits of s from i on are the fraction f / Scale, the first
\* of them worth unit, and end before j.
FracAdd(v, fp) == <<v + fp[1], fp[2]>>

RECURSIVE FracPart(_, _, _)
FracPart(s, i, unit) ==
  IF i <= Len(s) /\ IsDigit(s[i])
  THEN FracAdd(DigitVal(s[i]) * unit, FracPart(s, i + 1, unit \div 10))
  ELSE <<0, i>>

\* The fraction after the digits ip, if a point follows them.
FracAfter(s, ip) ==
  IF ip[2] <= Len(s) /\ s[ip[2]] = "."
  THEN FracPart(s, ip[2] + 1, Scale \div 10)
  ELSE <<0, ip[2]>>

\* parseFloat(s), scaled by Scale: NaN when there is no digit before nor
\* after the point.
parseFloatAt(start, ip, fp) ==
  [nan |-> ip[2] = start /\ fp[2] <= ip[2] + 1,
   val |-> IF start = 2 THEN -(ip[1] * Scale + fp[1])
           ELSE ip[1] * Scale + fp[1]]

parseFloat(s) ==
  parseFloatAt(SignEnd(s), IntPart(s, SignEnd(s), 0),
               FracAfter(s, IntPart(s, SignEnd(s), 0)))

\* parseInt(n) || 2: NaN and 0 are falsy
OrTwo(r) == IF r.nan \/ r.val = 0 THEN 2 ELSE r.val

\* Math.max(1, k)
MaxOne(k) == IF k < 1 THEN 1 ELSE k

\* The degrees of freedom without Math.max(1, ...).
AppDfUnfloored(n) == OrTwo(parseInt(n)) - 1

\* const df = Math.max(1, (parseInt(n) || 2) - 1);
AppDf(n) == MaxOne(OrTwo(parseInt(n)) - 1)

P0Df(n) == MaxOne(OrTwo(parseInt(n)) - 1)

\* const df = mode === 'chi' || mode === 't_mean'
\*              ? Math.max(1, (parseInt(n) || 2) - 1) : 0;
CalcDf(m, n) ==
  IF m = "chi" \/ m = "t_mean" THEN MaxOne(OrTwo(parseInt(n)) - 1) ELSE 0

\* The df of the render of the current state.
RenderedDf ==
  IF copy = "app" THEN AppDf(nField)
  ELSE IF copy = "part0" THEN P0Df(nField)
  ELSE CalcDf(mode, nField)

\* A page showing a chi-square or t calculator.
InCalculator == copy \in {"app", "part0"} \/ mode \in {"chi", "t_mean"}

Modes == { "chi", "t_mean", "z_mean", "z_prop" }

\* useState(1) in the chi-square pages, useState(10) and mode null in the
\* page of the four calculators.
InitUi ==
  /\ copy \in {"generic", "app", "part0"}
  /\ mode = IF copy = "generic" THEN "none" ELSE "chi"
  /\ nField = IF copy = "generic" THEN <<"1", "0">> ELSE <<"1">>
  /\ pc = "idle"
  /\ argType = "none" /\ argDf = 0 /\ fn = "none"
  /\ x1 = Zero /\ ret1 = NoEv /\ x2 = Zero /\ ret2 = NoEv
  /\ argP = Zero /\ low = Zero /\ high = Zero /\ mid = Zero /\ iter = 0
  /\ lastVal = Zero /\ ret = Zero /\ nCdf = 0 /\ nPdf = 0 /\ prev = NoPrev
  /\ NoPages

\* onChange={(e) => setN(e.target.value)}: the field is on the page of a
\* calculator.
SetN ==
  /\ pc = "idle" /\ (copy = "generic" => mode # "none")
  /\ \E s \in FieldContents : nField' = s
  /\ UNCHANGED <<pc, copy, argType, argDf, fn, x1, ret1, x2, ret2, argP, low,
                 high, mid, iter, lastVal, ret, nCdf, nPdf, prev, mode,
                 pageVars>>

\* onClick={() => setMode(m)} in the menu, setMode(null) in a calculator:
\* the page is rendered with the new mode and the n it had.
SetMode ==
  /\ pc = "idle" /\ copy = "generic"
  /\ \/ mode = "none" /\ mode' \in Modes
     \/ mode # "none" /\ mode' = "none"
  /\ pc' = "effect"
  /\ UNCHANGED <<copy, argType, argDf, fn, x1, ret1, x2, ret2, argP, low,
                 high, mid, iter, lastVal, ret, nCdf, nPdf, prev, nField,
                 pageVars>>

\* The effect of a change of mode: setN(10), setN(30) or setN(100).
ModeEffect ==
  /\ pc = "effect"
  /\ nField' = IF mode \in {"chi", "t_mean"} THEN <<"1", "0">>
               ELSE IF mode = "z_mean" THEN <<"3", "0">>
               ELSE IF mode = "z_prop" THEN <<"1", "0", "0">>
               ELSE nField
  /\ pc' = "idle"
  /\ UNCHANGED <<copy, argType, argDf, fn, x1, ret1, x2, ret2, argP, low,
                 high, mid, iter, lastVal, ret, nCdf, nPdf, prev, mode,
                 pageVars>>

NextUi == SetN \/ SetMode \/ ModeEffect

SpecUi == InitUi /\ [][NextUi]_vars

(***************************************************************************)
(* The pages: React state, renders and effects                             *)
(*                                                                         *)
(* page is the state of the component (the values held by useState), and   *)
(* shown the state of its last render: an effect reads the values of the   *)
(* render it belongs to and writes page.  After a render the effects whose *)
(* dependencies changed run in the order they are declared; when they have *)
(* run and the state differs from the one rendered, the page is rendered   *)
(* again.  An event handler runs when no effect is pending.  The fields    *)
(* of the chi-square pages carry the names of the page of the four         *)
(* calculators: sampleVal is s, popVal is sigma, chiInputMode is           *)
(* inputMode.  The numeric fields other than n hold the number their text  *)
(* parses to.                                                              *)
(***************************************************************************)
\* The text of a field: the characters typed, or the digits written by
\* toFixed.
Text(s) == [kind |-> "typed", chars |-> s, val |-> 0, digits |-> 0]

\* ""
Empty == Text(<< >>)

\* x.toFixed(d): the decimal text of x with d digits after the point, kept
\* as the integer of its digits; "NaN" and "Infinity" otherwise.
toFixed(x, d) ==
  IF IsNaN(x)
  THEN [kind |-> "NaN", chars |-> << >>, val |-> 0, digits |-> 0]
  ELSE IF Special(x)
  THEN [kind |-> "Infinity", chars |-> << >>, val |-> Sgn(x[1]), digits |-> 0]
  ELSE [kind |-> "fixed", chars |-> << >>,
        val |-> fround(fmul(x, FromInt(10^d))), digits |-> d]

\* The number read by parseFloat: NaN, or the scaled value over Scale.
ToNumber(r) == IF r.nan THEN NaN ELSE Dec(r.val, Scale)

\* isNaN(val) of a text that is not empty: Number(val) is NaN unless the
\* whole text is a number.
NotANumber(s) ==
  parseFloat(s).nan
  \/ FracAfter(s, IntPart(s, SignEnd(s), 0))[2] <= Len(s)

\* A number that is neither 0 nor NaN (nNum && ...).
Truthy(x) == ~IsNaN(x) /\ x # Zero

\* null, and a number, as values of pValue
Null == [isNull |-> TRUE, v |-> Zero]
Num(x) == [isNull |-> FALSE, v |-> x]

\* useState(...) of the component of copy c.  The chi-square pages have no
\* mode: they are the chi-square calculator.
InitialPage(c) ==
  [mode |-> IF c = "generic" THEN "none" ELSE "chi",
   n |-> IF c = "generic" THEN <<"1", "0">> ELSE <<"1">>,
   sampleVal |-> One,
   popVal |-> IF c = "generic" THEN Zero ELSE One,
   extraVal |-> One,
   chiInputMode |-> "sd",
   testStat |-> Zero,
   cvLeft |-> Empty, areaLeft |-> Empty,
   cvRight |-> Empty, areaRight |-> Empty,
   h1Op |-> IF c = "generic" THEN "!=" ELSE ">",
   decision |-> "null",
   pValue |-> Null,
   showSubmitModal |-> FALSE]

\* config[mode].distType, config.chi in the menu
DistType(m) ==
  IF m = "t_mean" THEN "t"
  ELSE IF m \in {"z_mean", "z_prop"} THEN "normal"
  ELSE "chi"

\* const df of the render of state pg
Df(c, pg) ==
  IF c = "app" THEN AppDf(pg.n)
  ELSE IF c = "part0" THEN P0Df(pg.n)
  ELSE CalcDf(pg.mode, pg.n)

\* n iterations of the loop of ppf of a chi-square page from st.
RECURSIVE chiOnlyIter(_, _, _, _, _)
RECURSIVE chiOnlyIterRest(_, _, _, _, _)
chiOnlyIter(c, p, k, st, n) ==
  IF n = 0 THEN st
  ELSE IF n = 1
  THEN ppfMove(p, st, fdiv(fadd(st[1], st[2]), Two),
               Apply(c, "cdf", fdiv(fadd(st[1], st[2]), Two), k, "chi").v)
  ELSE chiOnlyIterRest(c, p, k, chiOnlyIter(c, p, k, st, n \div 2),
                       n - n \div 2)

chiOnlyIterRest(c, p, k, st, n) ==
  IF Strict(st) THEN chiOnlyIter(c, p, k, st, n) ELSE st

\* MathUtils.ppf of App.jsx as a function of its arguments
AppPpf(p, k) ==
  IF fle(p, Zero) THEN Zero
  ELSE IF fle(One, p) THEN AppHigh(k)
  ELSE chiOnlyIter("app", p, k, <<Zero, AppHigh(k), Zero>>, AppPpfN)[3]

\* MathUtils.ppf of part_000 as a function of its arguments
P0Ppf(p, k) ==
  IF fle(p, Zero) THEN Zero
  ELSE IF fle(One, p) THEN P0High(k)
  ELSE chiOnlyIter("part0", p, k, <<Zero, P0High(k), Zero>>, P0PpfN)[3]

\* MathUtils.ppf of the three copies as a function of its arguments
PpfCopy(c, p, df, type) ==
  IF c = "generic" THEN ppf(p, df, type)
  ELSE IF c = "app" THEN AppPpf(p, df)
  ELSE P0Ppf(p, df)

\* The value MathUtils[f] returns, f being "cdf" or "ppf"
Value(c, f, x, df, type) ==
  IF f = "ppf" THEN PpfCopy(c, x, df, type) ELSE Apply(c, f, x, df, type).v

\* MathUtils.cdf and MathUtils.ppf of the page: a pure function of its
\* arguments, its value is computed once and read from the table.
CdfOf(c, x, df, type) == table[<<c, "cdf", type, df, x>>]

PpfOf(c, p, df, type) == table[<<c, "ppf", type, df, p>>]

\* parseFloat(n)
NNum(pg) == ToNumber(parseFloat(pg.n))

\* sSq and sigSq: the squares when standard deviations are entered
SSq(pg) ==
  IF pg.chiInputMode = "sd" THEN fmul(pg.sampleVal, pg.sampleVal)
  ELSE pg.sampleVal

SigSq(pg) ==
  IF pg.chiInputMode = "sd" THEN fmul(pg.popVal, pg.popVal) ELSE pg.popVal

\* ((nNum - 1) * sSq) / sigSq
ChiStat(pg) == fdiv(fmul(fsub(NNum(pg), One), SSq(pg)), SigSq(pg))

\* (samp - pop) / (extra / Math.sqrt(nNum))
MeanStat(pg) ==
  fdiv(fsub(pg.sampleVal, pg.popVal), fdiv(pg.extraVal, fsqrt(NNum(pg))))

\* const den = Math.sqrt((pop * (1 - pop)) / nNum)
PropDen(pg) ==
  fsqrt(fdiv(fmul(pg.popVal, fsub(One, pg.popVal)), NNum(pg)))

\* stat of the effect of the page of the four calculators, from the render
\* of state pg
Stat(pg) ==
  IF pg.mode = "chi" /\ Truthy(NNum(pg)) /\ Truthy(pg.sampleVal)
     /\ Truthy(pg.popVal)
  THEN (IF SigSq(pg) # Zero THEN ChiStat(pg) ELSE Zero)
  ELSE IF pg.mode \in {"t_mean", "z_mean"} /\ Truthy(NNum(pg))
          /\ Truthy(pg.extraVal)
  THEN MeanStat(pg)
  ELSE IF pg.mode = "z_prop" /\ Truthy(NNum(pg)) /\ flt(Zero, pg.popVal)
          /\ flt(pg.popVal, One)
  THEN (IF PropDen(pg) # Zero
        THEN fdiv(fsub(pg.sampleVal, pg.popVal), PropDen(pg))
        ELSE Zero)
  ELSE Zero

\* The test statistic of a chi-square page: kept when a field is empty or 0.
AppStat(pg, kept) ==
  IF Truthy(NNum(pg)) /\ Truthy(pg.sampleVal) /\ Truthy(pg.popVal)
  THEN ChiStat(pg)
  ELSE kept

\* const pLow = MathUtils.cdf(testStat, df, type)
PLow(c, pg) ==
  CdfOf(c, pg.testStat, Df(c, pg),
        IF c = "generic" THEN DistType(pg.mode) ELSE "chi")

\* 2 * Math.min(pLow, pHigh)
TwoTailed(pLow) == fmul(Two, fmin(pLow, fsub(One, pLow)))

\* Math.max(0, Math.min(1.0, pVal))
Clamp(v) == fmax(Zero, fmin(One, v))

\* The p-value set by the effect of the page of the four calculators.
CalcPValue(pg) ==
  IF pg.cvLeft # Empty /\ pg.cvRight # Empty
  THEN Num(Clamp(TwoTailed(PLow("generic", pg))))
  ELSE IF pg.cvLeft # Empty THEN Num(Clamp(PLow("generic", pg)))
  ELSE IF pg.cvRight # Empty
  THEN Num(Clamp(fsub(One, PLow("generic", pg))))
  ELSE Null

\* The p-value with the tails exchanged.
AppPValueSwapped(pg) ==
  IF pg.cvLeft # Empty /\ pg.cvRight # Empty
  THEN Num(fmin(One, TwoTailed(PLow("app", pg))))
  ELSE IF pg.cvRight # Empty THEN Num(PLow("app", pg))
  ELSE IF pg.cvLeft # Empty THEN Num(fsub(One, PLow("app", pg)))
  ELSE Null

\* The p-value set by the effect of App.jsx.
AppPValue(pg) ==
  IF pg.cvLeft # Empty /\ pg.cvRight # Empty
  THEN Num(fmin(One, TwoTailed(PLow("app", pg))))
  ELSE IF pg.cvLeft # Empty THEN Num(PLow("app", pg))
  ELSE IF pg.cvRight # Empty THEN Num(fsub(One, PLow("app", pg)))
  ELSE Null

\* The effects of the component of copy c, in the order they are declared
\* (the effects that draw or pick the problem set no state of the model).
Effects(c) ==
  IF c = "generic" THEN <<"reset", "stat", "pvalue">>
  ELSE IF c = "app" THEN <<"stat", "pvalue">>
  ELSE <<"stat">>

\* The dependency arrays with mode left out of the one of the p-value
\* effect.
DepsModeless(c, e, pg) ==
  IF e = "reset" THEN <<pg.mode>>
  ELSE IF e = "stat"
  THEN (IF c = "generic"
        THEN <<pg.n, pg.sampleVal, pg.popVal, pg.extraVal, pg.mode,
               pg.chiInputMode>>
        ELSE <<pg.n, pg.sampleVal, pg.popVal, pg.chiInputMode>>)
  ELSE <<pg.testStat, pg.cvLeft, pg.cvRight, Df(c, pg)>>

\* The dependency array of effect e in the render of state pg.
Deps(c, e, pg) ==
  IF e = "reset" THEN <<pg.mode>>
  ELSE IF e = "stat"
  THEN (IF c = "generic"
        THEN <<pg.n, pg.sampleVal, pg.popVal, pg.extraVal, pg.mode,
               pg.chiInputMode>>
        ELSE <<pg.n, pg.sampleVal, pg.popVal, pg.chiInputMode>>)
  ELSE (IF c = "generic"
        THEN <<pg.testStat, pg.cvLeft, pg.cvRight, Df(c, pg), pg.mode>>
        ELSE <<pg.testStat, pg.cvLeft, pg.cvRight, Df(c, pg)>>)

\* The effects to run after the render of new that follows the render of
\* old.
RECURSIVE ChangedFrom(_, _, _, _)
ChangedFrom(c, old, new, i) ==
  IF i > Len(Effects(c)) THEN << >>
  ELSE IF Deps(c, Effects(c)[i], old) # Deps(c, Effects(c)[i], new)
  THEN <<Effects(c)[i]>> \o ChangedFrom(c, old, new, i + 1)
  ELSE ChangedFrom(c, old, new, i + 1)

Changed(c, old, new) == ChangedFrom(c, old, new, 1)

\* The defaults the reset effect sets for mode m.
DefaultN(m) ==
  IF m = "z_mean" THEN <<"3", "0">>
  ELSE IF m = "z_prop" THEN <<"1", "0", "0">>
  ELSE <<"1", "0">>

DefaultSample(m) ==
  IF m = "chi" THEN Two
  ELSE IF m = "z_prop" THEN Dec(55, 100)
  ELSE FromInt(105)

DefaultPop(m) ==
  IF m = "chi" THEN Two
  ELSE IF m = "z_prop" THEN HalfF
  ELSE FromInt(100)

DefaultExtra(m) == IF m = "t_mean" THEN FromInt(10) ELSE FromInt(15)

\* A reset that keeps the critical value and the area of the left tail.
ResetPageRightOnly(sh, pg) ==
  [pg EXCEPT
     !.cvRight = Empty, !.areaRight = Empty,
     !.decision = "null",
     !.h1Op = "!=",
     !.n = IF sh.mode = "none" THEN @ ELSE DefaultN(sh.mode),
     !.sampleVal = IF sh.mode = "none" THEN @ ELSE DefaultSample(sh.mode),
     !.popVal = IF sh.mode = "none" THEN @ ELSE DefaultPop(sh.mode),
     !.extraVal = IF sh.mode \in {"t_mean", "z_mean"}
                  THEN DefaultExtra(sh.mode) ELSE @]

\* The effect of a change of mode, in the render of state sh, on state pg.
ResetPage(sh, pg) ==
  [pg EXCEPT
     !.cvLeft = Empty, !.areaLeft = Empty,
     !.cvRight = Empty, !.areaRight = Empty,
     !.decision = "null",
     !.h1Op = "!=",
     !.n = IF sh.mode = "none" THEN @ ELSE DefaultN(sh.mode),
     !.sampleVal = IF sh.mode = "none" THEN @ ELSE DefaultSample(sh.mode),
     !.popVal = IF sh.mode = "none" THEN @ ELSE DefaultPop(sh.mode),
     !.extraVal = IF sh.mode \in {"t_mean", "z_mean"}
                  THEN DefaultExtra(sh.mode) ELSE @]

\* The texts typed in the sample size field, in a critical value field and
\* in an area field, and the numbers typed in the other fields.
NTexts == { <<"3">>, << >> }
TypedCv == { << >>, <<"1">> }
TypedArea == { << >>, <<"1">> }
SampleEdits == { FromInt(20) }
PopEdits == { FromInt(3) }
ExtraEdits == { Zero }
H1Ops == { "<" }
Decisions == { "reject", "fail" }

\* The values of the fields when a calculator opens.
StartN(c, m) == IF c = "generic" THEN DefaultN(m) ELSE InitialPage(c).n
StartSample(c, m) == IF c = "generic" THEN DefaultSample(m) ELSE One
StartPop(c, m) == IF c = "generic" THEN DefaultPop(m) ELSE One
StartExtra(c, m) == IF c = "generic" THEN DefaultExtra(m) ELSE One

\* The states whose test statistic the page of copy c can compute in
\* mode m.
StatPages(c, m) ==
  { [InitialPage(c) EXCEPT !.mode = m, !.n = s, !.sampleVal = sv,
                           !.popVal = pv, !.extraVal = ev,
                           !.chiInputMode = im] :
      s \in NTexts \cup {StartN(c, m)},
      sv \in SampleEdits \cup {StartSample(c, m)},
      pv \in PopEdits \cup {StartPop(c, m)},
      ev \in ExtraEdits \cup {StartExtra(c, m)},
      im \in {"sd", "var"} }

\* The arguments of cdf kept in the table: the test statistics and the
\* critical values typed, at the degrees of freedom of the page.
TableX(c, m) ==
  { ToNumber(parseFloat(s)) : s \in { t \in TypedCv : ~NotANumber(t) } }
  \cup (IF c = "generic" THEN { Stat(pg) : pg \in StatPages(c, m) }
        ELSE { AppStat(pg, Zero) : pg \in StatPages(c, m) })

\* The probabilities ppf is called with: the areas typed and what is left
\* of them on the right.
TableP ==
  UNION { { ToNumber(parseFloat(s)), fsub(One, ToNumber(parseFloat(s))) } :
            s \in { t \in TypedArea : ~NotANumber(t) } }

TableKeysOf(c, m) ==
  { <<c, "cdf", DistType(m), Df(c, pg), x>> :
      pg \in StatPages(c, m), x \in TableX(c, m) }
  \cup { <<c, "ppf", DistType(m), Df(c, pg), p>> :
           pg \in StatPages(c, m), p \in TableP }

TableKeys(c) ==
  IF c = "generic" THEN UNION { TableKeysOf(c, m) : m \in Modes }
  ELSE TableKeysOf(c, "chi")

\* The variables of the callers of MathUtils, which the pages leave alone.
callVars == <<pc, copy, argType, argDf, fn, x1, ret1, x2, ret2, argP, low,
              high, mid, iter, lastVal, ret, nCdf, nPdf, prev, mode, nField>>

\* The component is mounted: its first render, every effect pending.
InitPage ==
  /\ pc = "page" /\ copy \in {"generic", "app", "part0"}
  /\ page = InitialPage(copy)
  /\ shown = InitialPage(copy)
  /\ pending = Effects(copy)
  /\ table = [key \in TableKeys(copy) |->
                Value(key[1], key[2], key[5], key[4], key[3])]
  /\ chain = << >>
  /\ argType = "none" /\ argDf = 0 /\ fn = "none"
  /\ x1 = Zero /\ ret1 = NoEv /\ x2 = Zero /\ ret2 = NoEv
  /\ argP = Zero /\ low = Zero /\ high = Zero /\ mid = Zero /\ iter = 0
  /\ lastVal = Zero /\ ret = Zero /\ nCdf = 0 /\ nPdf = 0 /\ prev = NoPrev
  /\ mode = "none" /\ nField = << >>

\* No effect is pending and the page shows its state.
Quiet == pc = "page" /\ pending = << >> /\ page = shown

\* A calculator is on the page, not the menu.
OnCalculator == copy # "generic" \/ page.mode # "none"

\* The state set by a handler is rendered.
Commit(new) ==
  /\ page' = new
  /\ shown' = new
  /\ pending' = Changed(copy, shown, new)
  /\ UNCHANGED <<callVars, chain, table>>

\* onClick={() => setMode('chi')}, ... in the menu
ChooseTest ==
  /\ Quiet /\ copy = "generic" /\ page.mode = "none"
  /\ \E m \in Modes : Commit([page EXCEPT !.mode = m])

\* onClick={() => setMode(null)}
BackToMenu ==
  /\ Quiet /\ copy = "generic" /\ page.mode # "none"
  /\ Commit([page EXCEPT !.mode = "none"])

\* An edit of n that also empties the area of the left tail.
EditNClearingArea ==
  /\ Quiet /\ OnCalculator
  /\ \E s \in NTexts : Commit([page EXCEPT !.n = s, !.areaLeft = Empty])

\* onChange={(e) => setN(e.target.value)}
EditN ==
  /\ Quiet /\ OnCalculator
  /\ \E s \in NTexts : Commit([page EXCEPT !.n = s])

\* setSampleVal / setS
EditSample ==
  /\ Quiet /\ OnCalculator
  /\ \E v \in SampleEdits : Commit([page EXCEPT !.sampleVal = v])

\* setPopVal / setSigma
EditPop ==
  /\ Quiet /\ OnCalculator
  /\ \E v \in PopEdits : Commit([page EXCEPT !.popVal = v])

\* setExtraVal: the field is shown for the two tests of a mean.
EditExtra ==
  /\ Quiet /\ copy = "generic" /\ page.mode \in {"t_mean", "z_mean"}
  /\ \E v \in ExtraEdits : Commit([page EXCEPT !.extraVal = v])

\* setChiInputMode / setInputMode
SetInputMode ==
  /\ Quiet /\ OnCalculator /\ (copy = "generic" => page.mode = "chi")
  /\ \E im \in {"sd", "var"} : Commit([page EXCEPT !.chiInputMode = im])

\* currentConfig.distType, 'chi' in the chi-square pages
PageType == IF copy = "generic" THEN DistType(page.mode) ELSE "chi"

updateFromCvLeft ==
  /\ Quiet /\ OnCalculator
  /\ \E val \in TypedCv :
       Commit([page EXCEPT
                 !.cvLeft = Text(val),
                 !.areaLeft =
                   IF val = << >> \/ NotANumber(val) THEN Empty
                   ELSE toFixed(CdfOf(copy, ToNumber(parseFloat(val)),
                                      Df(copy, page), PageType), 4)])

updateFromAreaLeft ==
  /\ Quiet /\ OnCalculator
  /\ \E val \in TypedArea :
       Commit([page EXCEPT
                 !.areaLeft = Text(val),
                 !.cvLeft =
                   IF val = << >> \/ NotANumber(val) THEN Empty
                   ELSE toFixed(PpfOf(copy, ToNumber(parseFloat(val)),
                                      Df(copy, page), PageType), 3)])

updateFromCvRight ==
  /\ Quiet /\ OnCalculator
  /\ \E val \in TypedCv :
       Commit([page EXCEPT
                 !.cvRight = Text(val),
                 !.areaRight =
                   IF val = << >> \/ NotANumber(val) THEN Empty
                   ELSE toFixed(fsub(One,
                                     CdfOf(copy, ToNumber(parseFloat(val)),
                                           Df(copy, page), PageType)), 4)])

updateFromAreaRight ==
  /\ Quiet /\ OnCalculator
  /\ \E val \in TypedArea :
       Commit([page EXCEPT
                 !.areaRight = Text(val),
                 !.cvRight =
                   IF val = << >> \/ NotANumber(val) THEN Empty
                   ELSE toFixed(PpfOf(copy,
                                      fsub(One, ToNumber(parseFloat(val))),
                                      Df(copy, page), PageType), 3)])

\* onChange={(e) => setH1Op(e.target.value)}
SetH1Op ==
  /\ Quiet /\ OnCalculator
  /\ \E op \in H1Ops : Commit([page EXCEPT !.h1Op = op])

\* onClick={() => setDecision('reject')}, setDecision('fail')
SetDecision ==
  /\ Quiet /\ OnCalculator
  /\ \E d \in Decisions : Commit([page EXCEPT !.decision = d])

\* The button that is enabled without a decision.
SubmitUngated ==
  /\ Quiet /\ copy \in {"app", "part0"}
  /\ Commit([page EXCEPT !.showSubmitModal = TRUE])

\* onClick={() => setShowSubmitModal(true)} disabled={!decision}
Submit ==
  /\ Quiet /\ copy \in {"app", "part0"}
  /\ page.decision # "null"
  /\ Commit([page EXCEPT !.showSubmitModal = TRUE])

\* onClick={() => setShowSubmitModal(false)} in the modal
CloseModal ==
  /\ Quiet /\ copy \in {"app", "part0"}
  /\ page.showSubmitModal
  /\ Commit([page EXCEPT !.showSubmitModal = FALSE])

\* The first pending effect is e: it runs next.
Runs(e) == pc = "page" /\ pending # << >> /\ Head(pending) = e

\* useEffect(() => { setCvLeft(""); ... }, [mode])
ResetEffect ==
  /\ Runs("reset")
  /\ page' = ResetPage(shown, page)
  /\ pending' = Tail(pending)
  /\ UNCHANGED <<callVars, chain, table, shown>>

\* useEffect(() => { ... setTestStat(stat) }, [n, sampleVal, ...]): the
\* page of the four calculators returns at once in the menu.
StatEffect ==
  /\ Runs("stat")
  /\ page' = IF copy # "generic"
             THEN [page EXCEPT !.testStat = AppStat(shown, @)]
             ELSE IF shown.mode = "none" THEN page
             ELSE [page EXCEPT !.testStat = Stat(shown)]
  /\ pending' = Tail(pending)
  /\ UNCHANGED <<callVars, chain, table, shown>>

\* useEffect(() => { ... setPValue(...) }, [testStat, cvLeft, cvRight, ...])
PValueEffect ==
  /\ Runs("pvalue")
  /\ page' = IF copy # "generic"
             THEN [page EXCEPT !.pValue = AppPValue(shown)]
             ELSE IF shown.mode = "none" THEN page
             ELSE [page EXCEPT !.pValue = CalcPValue(shown)]
  /\ pending' = Tail(pending)
  /\ UNCHANGED <<callVars, chain, table, shown>>

\* The effects have run and set state: the page is rendered again.
Render ==
  /\ pc = "page" /\ pending = << >> /\ page # shown
  /\ shown' = page
  /\ pending' = Changed(copy, shown, page)
  /\ UNCHANGED <<callVars, chain, table, page>>

NextPage ==
  \/ ChooseTest \/ BackToMenu
  \/ EditN \/ EditSample \/ EditPop \/ EditExtra \/ SetInputMode
  \/ updateFromCvLeft \/ updateFromAreaLeft
  \/ updateFromCvRight \/ updateFromAreaRight
  \/ SetH1Op \/ SetDecision \/ Submit \/ CloseModal
  \/ ResetEffect \/ StatEffect \/ PValueEffect \/ Render

SpecPage == InitPage /\ [][NextPage]_vars

(***************************************************************************)
(* The properties                                                           *)
(***************************************************************************)
\* C1: for every df and every p >= 1, ppf returns the fixed upper sentinel
\* without running the bisection: max(100, df + 6*sqrt(2*df)) for the
\* chi-square family and 10 for the normal and t families.
C1_UpperSentinel ==
  (pc = "done" /\ fle(One, argP)) =>
    /\ iter = 0 /\ nCdf = 0
    /\ ret = IF argType = "chi"
             THEN fmax(FromInt(100),
                       fadd(FromInt(argDf),
                            fmul(FromInt(6), fsqrt(FromInt(2 * argDf)))))
             ELSE FromInt(10)

\* C2: for every df and every p <= 0, negative p included, ppf returns the
\* lower support bound of the family without running the bisection: 0 for
\* chi-square, -10 for normal and t.
C2_LowerSentinel ==
  /\ (pc \in {"done", "checked"} /\ fle(argP, Zero)) =>
       /\ ret = (IF argType = "chi" THEN Zero ELSE FromInt(-10))
       /\ iter = 0 /\ nCdf = 0 /\ nPdf = 0
  /\ (pc = "loop") => ~fle(argP, Zero)

C2_NegativeP ==
  /\ pc = "done" /\ flt(argP, Zero)
  /\ argType = "t" /\ ret = FromInt(-10) /\ nCdf = 0

\* C3: for 0 < p < 1, ppf starts its bisection from [0, max(100, df + 10)]
\* for the chi-square family and from [-10, 10] for the normal and t
\* families, in every copy of the quantile solver.
C3_BracketEveryCopy ==
  (pc = "loop" /\ iter = 0) =>
    /\ low = (IF argType = "chi" THEN Zero ELSE FromInt(-10))
    /\ high = (IF argType = "chi"
               THEN fmax(FromInt(100), fadd(FromInt(argDf), FromInt(10)))
               ELSE FromInt(10))

\* C3 as amended: that bracket is the one of the generalized copy; the two
\* chi-square copies start from [0, max(100, k + 6 * sqrt(2k))].
C3_BracketByCopy ==
  (pc = "loop" /\ iter = 0) =>
    /\ Interior
    /\ low = (IF argType = "chi" THEN Zero ELSE FromInt(-10))
    /\ high = (IF argType # "chi" THEN FromInt(10)
               ELSE IF copy = "generic"
               THEN fmax(FromInt(100), fadd(FromInt(argDf), FromInt(10)))
               ELSE fmax(FromInt(100),
                         fadd(FromInt(argDf),
                              fmul(FromInt(6), fsqrt(FromInt(2 * argDf))))))

C3_WideBracket ==
  /\ pc = "loop" /\ iter = 0 /\ copy = "app" /\ argDf = 100
  /\ low = Zero /\ flt(FromInt(110), high)

\* C4: cdf and ppf are approximate inverses: for every p in
\* {0.01, 0.25, 0.5, 0.75, 0.99}, every df in {1, 5, 30} and each family,
\* cdf(ppf(p, df, family), df, family) is within 1e-3 of p.
C4_RoundTrip ==
  (pc = "checked" /\ copy = "generic" /\ argP \in RoundTripP
   /\ argDf \in {1, 5, 30}) =>
    fle(fabs(fsub(ret2.v, argP)), Dec(1, 1000))

\* C5: cdf(x, df, family) returns a value in [0, 1] for every real x and
\* every df >= 1, for all three families.
C5_CdfInUnitInterval ==
  (pc = "one" /\ fn = "cdf" /\ argDf >= 1) =>
    (fle(Zero, ret1.v) /\ fle(ret1.v, One))

\* C6: for every fixed df and family, cdf is monotonically non-decreasing
\* in x: for all x1 < x2, cdf(x1, df, family) <= cdf(x2, df, family).
C6_CdfMonotone ==
  (pc = "two" /\ fn = "cdf" /\ argDf >= 1 /\ flt(x1, x2)) =>
    fle(ret1.v, ret2.v)

C8_ZeroOutsideSupport ==
  /\ (pc \in {"one", "two"} /\ argType = "chi" /\ fn = "pdf"
      /\ (fle(x1, Zero) \/ argDf <= 0)) =>
       (ret1.v = Zero /\ ret1.g = 0 /\ ret1.n = 1)
  /\ (pc \in {"one", "two"} /\ argType = "chi" /\ fn = "cdf"
      /\ fle(x1, Zero)) =>
       (ret1.v = Zero /\ ret1.g = 0 /\ ret1.n = 0 /\ ret1.s = << >>)
  /\ (pc = "two" /\ argType = "chi" /\ fn = "pdf"
      /\ (fle(x2, Zero) \/ argDf <= 0)) =>
       (ret2.v = Zero /\ ret2.g = 0 /\ ret2.n = 1)
  /\ (pc = "two" /\ argType = "chi" /\ fn = "cdf" /\ fle(x2, Zero)) =>
       (ret2.v = Zero /\ ret2.g = 0 /\ ret2.n = 0 /\ ret2.s = << >>)

C8_LeftOfSupport ==
  /\ pc = "two" /\ argType = "chi" /\ argDf = 5 /\ fn = "cdf"
  /\ x1 = FromInt(-2) /\ ret1.v = Zero
  /\ x2 = Two /\ flt(Zero, ret2.v) /\ ret2.n = ChiN + 1

C10_FacadeRouting ==
  /\ (pc = "checked" /\ copy = "generic" /\ argType = "chi") =>
       ret1 = chiPdf(ret, argDf) /\ ret2 = chiCdf(ret, argDf)
  /\ (pc = "checked" /\ copy = "generic" /\ argType = "t") =>
       ret1 = tPdf(ret, argDf) /\ ret2 = tCdf(ret, argDf)
  /\ (pc = "checked" /\ copy = "generic" /\ argType = "normal") =>
       ret1 = normPdf(ret) /\ ret2 = normCdf(ret)
  /\ (pc \in {"done", "checked"} /\ copy = "generic" /\ ~Interior) =>
       IF argType = "chi" THEN ret \in {Zero, FromInt(100)}
       ELSE ret \in {FromInt(-10), FromInt(10)}
  /\ (pc = "loop" /\ copy = "generic" /\ iter = 0) =>
       IF argType = "chi"
       THEN low = Zero /\ high = fmax(FromInt(100), FromInt(argDf + 10))
       ELSE low = FromInt(-10) /\ high = FromInt(10)
  /\ (pc = "loop" /\ copy = "generic" /\ iter > 0) =>
       lastVal = IF argType = "chi" THEN chiCdf(mid, argDf).v
                 ELSE IF argType = "t" THEN tCdf(mid, argDf).v
                 ELSE normCdf(mid).v

C10_TQuantile ==
  /\ pc = "checked" /\ copy = "generic" /\ argType = "t" /\ Interior
  /\ iter = PpfN /\ nPdf > 0
  /\ ret1 = tPdf(ret, argDf) /\ ret1 # normPdf(ret)

\* The values of df compared in the normal family.
NormalDf == { -1, 0, 1, 5, 100 }

\* C11: for the normal family the df argument is ignored: for every x, every
\* p and any two values of df, pdf, cdf and ppf return the same result.
\* The results of the calls made with argDf are those of the same calls with
\* any df of NormalDf in its place.
C11_NormalIgnoresDf ==
  /\ (pc = "checked" /\ copy = "generic" /\ argType = "normal") =>
       \A df2 \in NormalDf :
         /\ ret1 = pdf(ret, df2, "normal")
         /\ ret2 = cdf(ret, df2, "normal")
  /\ (pc = "loop" /\ copy = "generic" /\ argType = "normal" /\ iter = 0) =>
       \A df2 \in NormalDf : high = ppfHigh(df2, "normal")
  /\ (pc \in {"done", "checked"} /\ copy = "generic"
      /\ argType = "normal") =>
       \A df2 \in NormalDf : ret = ppf(argP, df2, "normal")

C11_NormalQuantile ==
  /\ pc = "checked" /\ copy = "generic" /\ argType = "normal" /\ argDf = 5
  /\ argP = Dec(3, 4) /\ iter = PpfN
  /\ ret = ppf(argP, 1, "normal") /\ flt(Zero, ret) /\ flt(ret, One)

\* C13: the core functions are deterministic and stateless: two calls of
\* pdf, cdf or ppf with identical arguments return identical results
\* whatever calls were made in between, and no call reads state another call
\* modified.  The results of every ppf call are those of the function ppf
\* of its arguments, whatever the call before left, and the third call
\* returns what the first call did, as do pdf and cdf at the value returned.
C13_SameCallSameResult ==
  /\ (pc = "done") => ret = ppf(argP, argDf, argType)
  /\ (pc = "checked" /\ prev.calls = 2) =>
       ret = prev.ret /\ ret1 = prev.pdf /\ ret2 = prev.cdf

C13_ThirdCall ==
  /\ pc = "checked" /\ prev.calls = 2 /\ iter = PpfN
  /\ prev.first = <<"normal", 1, Dec(1, 4)>>
  /\ <<argType, argDf, argP>> = prev.first
  /\ ret = prev.ret /\ flt(ret, Zero)

\* C14: erf is antisymmetric: erf(-x) = -erf(x) for every real x.
C14_ErfAntisymmetric ==
  /\ (pc = "one" /\ fn = "erf") => erf(fneg(x1)) = fneg(ret1.v)
  /\ (pc = "two" /\ fn = "erf" /\ x2 = fneg(x1)) => ret2.v = fneg(ret1.v)

\* C14 as amended: erf(-x) = -erf(x) for every x other than 0; at 0 the
\* sign is taken as 1 and erf(0) = erf(-0) is the small positive number the
\* polynomial leaves (about 1e-9, below 1e-8), which is not its own opposite.
C14_ErfAntisymmetricOffZero ==
  /\ (pc = "one" /\ fn = "erf" /\ x1 # Zero) =>
       erf(fneg(x1)) = fneg(ret1.v)
  /\ (pc = "two" /\ fn = "erf" /\ x2 = fneg(x1) /\ x1 # Zero) =>
       ret2.v = fneg(ret1.v)
  /\ (pc = "one" /\ fn = "erf" /\ x1 = Zero) =>
       /\ erf(fneg(x1)) = ret1.v
       /\ flt(Zero, ret1.v) /\ flt(ret1.v, Dec(1, 10^8))

C14_MirrorErf ==
  /\ pc = "two" /\ fn = "erf" /\ x1 = Two /\ x2 = FromInt(-2)
  /\ ret2.v = fneg(ret1.v) /\ flt(ret2.v, Zero)

Trunc(v) == IF v < 0 THEN -((-v) \div Scale) ELSE v \div Scale

C17_FiftyHalvings ==
  /\ [](/\ (pc = "loop") => iter <= 50
        /\ (pc = "loop" /\ iter > 0) =>
             fsub(high, low) = fscale(fsub(High0, Low0), -iter)
        /\ (pc \in {"done", "checked"} /\ Interior) =>
             /\ iter = 50 /\ nCdf = 50
             /\ ret = mid /\ (mid = low \/ mid = high)
             /\ fsub(high, low) = fscale(fsub(High0, Low0), -50))
  /\ [][(pc = "loop" /\ pc' = "loop") => iter' = iter + 1]_vars
  /\ [][(pc = "loop" /\ pc' = "done") => iter = 50]_vars

\* C17 as amended: the loop makes exactly 50 iterations, with no convergence
\* check or early exit, and the value returned is the last midpoint; each
\* iteration moves one end of the bracket to the rounded midpoint, so the
\* bracket never widens and its width after k iterations is at most
\* (high0 - low0) / 2^k plus the rounding of the midpoints, not exactly
\* (high0 - low0) / 2^k.
C17_FiftyRoundedHalvings ==
  /\ [](/\ (pc = "loop") => iter <= 50
        /\ (pc = "loop" /\ iter > 0) =>
             /\ fle(low, high)
             /\ fle(fsub(high, low),
                    fadd(fscale(fsub(High0, Low0), -iter), Slack))
        /\ (pc \in {"done", "checked"} /\ Interior) =>
             /\ iter = 50 /\ nCdf = 50
             /\ ret = mid /\ (mid = low \/ mid = high)
             /\ fle(fsub(high, low),
                    fadd(fscale(fsub(High0, Low0), -50), Slack)))
  /\ [][(pc = "loop" /\ pc' = "loop") =>
          /\ iter' = iter + 1
          /\ fle(fsub(high', low'), fsub(high, low))]_vars
  /\ [][(pc = "loop" /\ pc' = "done") => iter = 50]_vars

C17_LastMidpoint ==
  /\ pc = "done" /\ copy = "generic" /\ argType = "chi" /\ argDf = 100
  /\ Interior /\ iter = 50 /\ ret = mid
  /\ fsub(high, low) # fscale(fsub(High0, Low0), -50)

\* C18: in each bisection iteration of ppf, low is moved up to mid if and
\* only if cdf(mid) < target; in every other case, cdf(mid) = target
\* included, high is moved down to mid; low never decreases and high never
\* increases.
C18_BisectionStep ==
  [][(pc = "loop" /\ pc' = "loop") =>
       /\ lastVal' = Apply(copy, "cdf", mid', argDf, argType).v
       /\ flt(lastVal', argP) => (low' = mid' /\ high' = high)
       /\ ~flt(lastVal', argP) => (high' = mid' /\ low' = low)
       /\ fle(low, low') /\ fle(high', high)]_vars

C18_Tie ==
  /\ pc = "loop" /\ copy = "generic" /\ argType = "t" /\ iter = 1
  /\ lastVal = argP /\ high = mid /\ low = Low0 /\ flt(high, High0)

\* C19: a single ppf call performs at most 50 evaluations of cdf and at most
\* 50 x 200 = 10000 evaluations of a density function, for every family,
\* every p and every df, counting every chiPdf / tPdf call made by the
\* Simpson sums; tCdf(0) returns without integrating.
C19_EvaluationBudget ==
  /\ nCdf <= 50 /\ nPdf <= 50 * 200
  /\ nCdf = (IF pc = "loop" \/ Interior THEN iter ELSE 0)
  /\ (pc \in {"done", "checked"} /\ Interior) =>
       /\ nCdf = 50
       /\ nPdf = IF argType = "chi" THEN 50 * 101
                 ELSE IF argType = "t" THEN 49 * 201
                 ELSE 0
  /\ (pc \in {"done", "checked"} /\ ~Interior) => nPdf = 0

C19_FullTQuantile ==
  /\ pc = "done" /\ copy = "generic" /\ argType = "t" /\ Interior
  /\ nCdf = 50 /\ nPdf = 49 * 201 /\ nPdf > 50 * 101

\* The number of terms of the samples s taken at the node x.
TimesSampled(s, x) == Cardinality({ j \in 1..Len(s) : s[j][1] = x })

\* The samples s are those of a composite Simpson sum of n subintervals of
\* width h: the endpoints a and b with weight 1, then every interior node
\* i * h, 1 <= i <= n - 1, once, with weight 4 for i odd and 2 for i even.
SimpsonSamples(s, a, b, h, n) ==
  /\ Len(s) = n + 1
  /\ s[1] = <<a, 1>> /\ s[2] = <<b, 1>>
  /\ \A i \in 1..(n - 1) :
       /\ TimesSampled(SubSeq(s, 3, Len(s)), fmul(FromInt(i), h)) = 1
       /\ \A j \in 3..Len(s) :
            s[j][1] = fmul(FromInt(i), h) =>
              s[j][2] = IF i % 2 = 1 THEN 4 ELSE 2

\* C20: the composite Simpson sums sample every interior node i * h,
\* 1 <= i <= n - 1, exactly once, with weight 4 when i is odd and weight 2
\* when i is even, and the two endpoints with weight 1, with n = 100 and
\* h = x / 100 for chi-square (lower endpoint sampled at 0.0001, never at 0)
\* and n = 200 and h = |x| / 200 for Student's t (lower endpoint sampled
\* at 0).
C20_SimpsonNodes ==
  /\ (pc = "one" /\ fn = "cdf" /\ argType = "chi" /\ flt(Zero, x1)) =>
       /\ SimpsonSamples(ret1.s, Epsilon, x1, fdiv(x1, FromInt(100)), 100)
       /\ TimesSampled(ret1.s, Zero) = 0
  /\ (pc = "one" /\ fn = "cdf" /\ argType = "t" /\ x1 # Zero) =>
       SimpsonSamples(ret1.s, Zero, x1, fdiv(fabs(x1), FromInt(200)), 200)
  /\ (pc = "one" /\ fn = "cdf" /\ argType \in {"chi", "t"}) =>
       ret1.n = Len(ret1.s)

C20_TSamples ==
  /\ pc = "one" /\ fn = "cdf" /\ argType = "t" /\ x1 = FromInt(-2)
  /\ Len(ret1.s) = 201
  /\ ret1.s[1] = <<Zero, 1>> /\ ret1.s[2] = <<x1, 1>>
  /\ ret1.s[3] = <<fdiv(Two, FromInt(200)), 4>>

\* C22: for every p (p <= 0 and p >= 1 included), every df and every
\* family, the value returned by ppf lies inside the initial bisection
\* bracket [low0, high0] of that family; in particular ppf for the normal
\* and t families never returns a value outside [-10, 10].
C22_ReturnInBracket ==
  (pc \in {"done", "checked"}) =>
    /\ fle(Low0, ret) /\ fle(ret, High0)
    /\ (argType \in {"normal", "t"}) =>
         fle(FromInt(-10), ret) /\ fle(ret, FromInt(10))

C22_InsideTheBracket ==
  /\ pc = "done" /\ argType = "chi" /\ copy = "generic" /\ argDf = 100
  /\ Interior /\ iter = PpfN
  /\ flt(Low0, ret) /\ flt(ret, High0) /\ High0 = FromInt(110)

\* The value of cdf at x in the current ppf call.
CdfAt(x) == Apply(copy, "cdf", x, argDf, argType).v

\* cdf(low0) < p <= cdf(high0)
Bracketed0 == flt(CdfAt(Low0), argP) /\ fle(argP, CdfAt(High0))

\* C23: the bisection in ppf keeps the target bracketed: if
\* cdf(low0) < p <= cdf(high0) holds for the initial bracket, then after
\* every iteration cdf(low) < p <= cdf(high) and low <= mid <= high still
\* hold.
C23_TargetBracketed ==
  (pc = "loop" /\ iter >= 1 /\ Bracketed0) =>
    /\ flt(CdfAt(low), argP) /\ fle(argP, CdfAt(high))
    /\ fle(low, mid) /\ fle(mid, high)

C23_BothEndsMoved ==
  /\ pc = "loop" /\ iter >= 1 /\ Bracketed0
  /\ argType = "t" /\ flt(Low0, low) /\ flt(high, High0)

\* C24: the duplicated chi-square code is the same function in every copy:
\* for every x and k, pdf(x, k, "chi") and cdf(x, k, "chi") of the
\* generalized facade return the same values as pdf(x, k) and cdf(x, k) of
\* the two chi-square-only calculators.
C24_SameChiSquare ==
  /\ (pc \in {"one", "two"} /\ argType = "chi" /\ fn = "pdf") =>
       /\ ret1.v = pdf(x1, argDf, "chi").v
       /\ ret1.v = AppPdf(x1, argDf).v
       /\ ret1.v = P0Pdf(x1, argDf).v
  /\ (pc \in {"one", "two"} /\ argType = "chi" /\ fn = "cdf") =>
       /\ ret1.v = cdf(x1, argDf, "chi").v
       /\ ret1.v = AppCdf(x1, argDf).v
       /\ ret1.v = P0Cdf(x1, argDf).v

C24_SameArea ==
  /\ pc = "one" /\ copy = "generic" /\ argType = "chi" /\ fn = "cdf"
  /\ x1 = Two /\ argDf = 5
  /\ flt(Zero, ret1.v) /\ flt(ret1.v, One)
  /\ ret1.v = AppCdf(x1, argDf).v /\ ret1.v = P0Cdf(x1, argDf).v

\* C21: gamma(z) terminates for every real z with recursion depth at most
\* one: an argument z < 0.5 triggers the reflection branch once, and the
\* recursive argument 1 - z is never below 0.5, so the recursive call
\* always takes the direct Lanczos branch.
C21_OneReflection ==
  (pc = "done" /\ fn = "gamma") =>
    /\ chain[1] = x1
    /\ Len(chain) = (IF flt(x1, HalfF) THEN 2 ELSE 1)
    /\ flt(x1, HalfF) => chain[2] = fsub(One, x1) /\ ~flt(chain[2], HalfF)

C21_ReflectedNextToHalf ==
  /\ pc = "done" /\ fn = "gamma" /\ x1 = BelowHalf
  /\ Len(chain) = 2 /\ chain[1] = BelowHalf
  /\ fle(HalfF, chain[2]) /\ fle(chain[2], AboveHalf)

\* The p-value of the tail selection of state pg, for pLow = cdf(testStat,
\* df): twice the smaller tail capped at 1, the left tail, the right tail,
\* or null.
TailPValue(pg, pLow) ==
  IF pg.cvLeft # Empty /\ pg.cvRight # Empty
  THEN Num(fmin(One, fmul(Two, fmin(pLow, fsub(One, pLow)))))
  ELSE IF pg.cvLeft # Empty THEN Num(pLow)
  ELSE IF pg.cvRight # Empty THEN Num(fsub(One, pLow))
  ELSE Null

\* A p-value brought into [0, 1], null left as it is.
IntoUnit(r) == IF r.isNull THEN r ELSE Num(fmax(Zero, fmin(One, r.v)))

Cleared(pg) ==
  /\ pg.cvLeft = Empty /\ pg.areaLeft = Empty
  /\ pg.cvRight = Empty /\ pg.areaRight = Empty
  /\ pg.decision = "null" /\ pg.h1Op = "!="

\* The mode differs from the mode of the render before: the reset, first
\* of the effects, is to run.
ModeChanged == Runs("reset")

\* C26: in the multi-test calculator every change of mode, from the menu
\* to a calculator or from a calculator back to the menu, makes the reset
\* the next thing to happen, and the reset leaves cvLeft, areaLeft, cvRight
\* and areaRight empty, decision null and h1Op the not-equal operator; the
\* calculator that opens shows none of them filled.
C26_ResetFollows ==
  [][/\ page'.mode # page.mode => ModeChanged'
     /\ ModeChanged => ~ModeChanged' /\ Cleared(page')
     /\ (page'.mode # page.mode /\ page'.mode # "none") => Cleared(shown')]_vars

\* The reset has just run on the calculator of the t test, and the p-value
\* of the test before is still in the state.
C26_ResetAfterAnotherTest ==
  /\ pc = "page" /\ copy = "generic"
  /\ shown.mode = "t_mean" /\ pending = <<"stat", "pvalue">>
  /\ Cleared(page) /\ ~page.pValue.isNull

\* C27: in the problem-bank calculators the submission modal is gated by
\* the decision: whenever showSubmitModal is true a decision, "reject" or
\* "fail", has been selected, and a decision once selected never returns to
\* null.
C27_SubmitGated ==
  /\ [](copy \in {"app", "part0"} =>
          (page.showSubmitModal => page.decision \in {"reject", "fail"}))
  /\ [][(copy \in {"app", "part0"} /\ page.decision # "null") =>
          page'.decision \in {"reject", "fail"}]_vars

\* The modal is open on the page of part_000 after the decision "fail".
C27_ModalAfterDecision ==
  /\ Quiet /\ copy = "part0"
  /\ page.showSubmitModal /\ page.decision = "fail"

\* C28: whenever a calculator is displayed and every pending effect has
\* run, pValue is null if and only if both cvLeft and cvRight are empty,
\* whatever critical values, areas and inputs were edited and whatever
\* modes were chosen before.
C28_NullIffNoTail ==
  (Quiet /\ OnCalculator /\ copy # "part0") =>
    (page.pValue.isNull <=> (page.cvLeft = Empty /\ page.cvRight = Empty))

\* A z calculator has been entered from the menu: its first render still
\* shows the p-value of the test before, and the effects have set it to
\* null.
C28_StalePValueCleared ==
  /\ pc = "page" /\ copy = "generic" /\ pending = << >>
  /\ shown.mode = "z_mean" /\ ~shown.pValue.isNull
  /\ shown.cvLeft = Empty /\ shown.cvRight = Empty
  /\ page.pValue.isNull

\* C29: the p-value stored for display, when it is not null, lies in
\* [0, 1], for every test statistic, df, distribution type and tail
\* selection and every finite value returned by cdf.
C29_PValueInUnit ==
  (pc = "page" /\ ~page.pValue.isNull /\ ~Special(page.pValue.v)) =>
    fle(Zero, page.pValue.v) /\ fle(page.pValue.v, One)

\* C29 on the page of the four calculators, which clamps the p-value.
C29_ClampedPValueInUnit ==
  (pc = "page" /\ copy = "generic" /\ ~page.pValue.isNull
     /\ ~Special(page.pValue.v)) =>
    fle(Zero, page.pValue.v) /\ fle(page.pValue.v, One)

\* The critical value and the area of the left tail, and of the right tail.
LeftTail(pg) == <<pg.cvLeft, pg.areaLeft>>

RightTail(pg) == <<pg.cvRight, pg.areaRight>>

\* C30: editing n, the sample value, the population value or the input
\* mode never changes cvLeft, areaLeft, cvRight or areaRight: a pair of
\* critical value and area is written only by its own two handlers and by
\* the reset that follows a change of mode.
C30_EditsKeepTails ==
  [][/\ (EditN \/ EditSample \/ EditPop \/ SetInputMode) =>
          (LeftTail(page') = LeftTail(page)
             /\ RightTail(page') = RightTail(page))
     /\ LeftTail(page') # LeftTail(page) =>
          (updateFromCvLeft \/ updateFromAreaLeft \/ ResetEffect)
     /\ RightTail(page') # RightTail(page) =>
          (updateFromCvRight \/ updateFromAreaRight \/ ResetEffect)]_vars

\* The area of the left tail was computed from the critical value 1 under
\* another df: it is not the area of 1 under the df of the page.
C30_AreaOfFormerDf ==
  /\ Quiet /\ copy = "app"
  /\ page.cvLeft = Text(<<"1">>) /\ page.areaLeft.kind = "fixed"
  /\ page.areaLeft # toFixed(CdfOf(copy, One, Df(copy, page), "chi"), 4)
=============================================================================
